---- MODULE Spec2Model ----
(***************************************************************************)
(* Ceramic electric furnace backend: the recording session (BatchService), *)
(* the polling loops with their write buffers, the accumulators that write *)
(* running totals, and the persistence sink.                               *)
(*                                                                         *)
(* One poll iteration and one session call are each atomic: the polling    *)
(* loops and the HTTP handlers are coroutines of one asyncio event loop,   *)
(* and the code between two awaits contains no await (the processors, the  *)
(* accumulators, the flush functions and BatchService are synchronous).    *)
(***************************************************************************)
EXTENDS Integers, Sequences, FiniteSets, TLC

\* ------------------------------------------------------------------ bounds
\* Number of session / reset / restart calls explored.
MaxOps == 3
\* Wall clock range (seconds, integer ticks).
MaxTime == 2
\* Scaled-down thresholds of the polling loops and accumulators.  The code
\* has 20 and 30 polls per flush, 30 and 60 samples per trigger, a minimum of
\* 10 queued samples and 100 buffered valve points; the gating logic does
\* not depend on the values, only on their order, which the scaling keeps.
ArcBatch == 2
NormalBatch == 2
CoolWindow == 2
FeedInterval == 2
FeedMinQueue == 1
ValveMaxLen == 1
\* The longest pause a recovered session has already accumulated.
MaxPriorPause == 1
\* Polls per feeding trigger where a feeding event must fit in the window
\* (an event needs more samples than AVG_POINTS), and the largest running
\* total followed (sixths of a kilogram, window units of water).
ContFeedInterval == 4
MaxTotal == 12
\* Feeding events counted while InfluxDB's answers to the accumulators'
\* queries come and go.
MaxFeedingCount == 2
\* Consecutive PLC errors followed.
MaxErrors == 12

\* The largest exponent of the loops' back-off and the consecutive errors
\* followed where the back-off is not what is looked at (the code stops
\* doubling at 2^4; a count at the ceiling stands for every larger count,
\* which the back-off does not tell apart).
BackoffExp == 0
\* Consecutive failed iterations followed where the back-off is looked at.
MaxErrorCount == 6
\* The valve estimator in ticks: the window it keeps, the run that calibrates,
\* its default travel time, the length of its status queue and the range of
\* the clock where openness is followed (35 s, 30 s, 30 s and 100 records in
\* the code).
ValveWindow == 2
CalThreshold == 1
DefaultFullTime == 2
StatusQueueLen == 3
ValveHorizon == 4
\* Samples per feeding trigger where the runs of a window are looked at (60
\* in the code: room for two runs longer than AVG_POINTS and a gap), and
\* the total a continued session already has in InfluxDB (sixths of a kg).
FeedWindow == 9
PriorTotal == 6
\* The energy calculator in ticks: the length of its queue, the samples
\* its first calculation waits for, the interval between calculations and
\* the range of the clock where it is followed (100 samples, 10 samples and
\* 15 s in the code).
PowerQueueSize == 4
PowerMinPoints == 2
PowerCalcInterval == 2
PowerHorizon == 5
\* The longest DB block handed to the decoder (bytes).
DataLen == 7
\* ------------------------------------------------------ program constants
\* calc_crc16: the initial value and the reflected polynomial
CRC_INIT == 65535
CRC_POLY == 40961
\* FeedingAccumulator.AVG_POINTS
AVG_POINTS == 3
\* FeedingAccumulator.MIN_FEEDING_KG
MIN_FEEDING_KG == 1
\* polling_loops_v2._arc_batch_size, _normal_batch_size
arc_batch_size == 20
normal_batch_size == 30
\* PLCManager._max_consecutive_errors
MAX_CONSECUTIVE_ERRORS == 10
\* polling_loops_v2: _db1_interval slow and fast, the fixed intervals of the
\* DB32 and status loops, the sleep after an empty read and MAX_ERROR_WAIT
\* (tenths of a second), and the exponent at which the back-off stops.
DB1_INTERVAL_SLOW == 50
DB1_INTERVAL_FAST == 2
DB32_INTERVAL == 5
STATUS_INTERVAL == 50
EMPTY_READ_WAIT == 10
MAX_ERROR_WAIT == 300
MAX_BACKOFF_EXPONENT == 4
\* valve_calculator_service.POLLING_INTERVAL (tenths of a second)
POLLING_INTERVAL == 5
\* polling_data_processor._arc_buffer = deque(maxlen=500)
ARC_BUFFER_MAXLEN == 500
\* polling_data_processor._normal_buffer = deque(maxlen=1000)
NORMAL_BUFFER_MAXLEN == 1000

\* ------------------------------------------------ values of the data model
\* Python None for a batch code; "" is the empty string a caller may pass.
Null == "null"
\* Python None for a datetime.
NoTime == -1
\* Batch codes the frontend supplies.
BatchIds == {"A", "B"}
\* Every value a batch_code tag can take.
Tags == BatchIds \cup {Null, ""}
\* The four butterfly valves (range(1, 5)).
Valves == 1..4
\* reset_openness(valve_id=None): all valves.
AllValves == 0
ValveName(v) == <<"valve_1", "valve_2", "valve_3", "valve_4">>[v]

\* Thresholds the loops and accumulators are run with.
ScaledCfg == [arc_batch_size |-> ArcBatch,
              normal_batch_size |-> NormalBatch,
              CALC_WINDOW |-> CoolWindow,
              COOL_QUEUE_SIZE |-> 2 * CoolWindow,
              CALC_INTERVAL |-> FeedInterval,
              FEED_QUEUE_SIZE |-> FeedInterval,
              FEED_MIN_QUEUE |-> FeedMinQueue,
              VALVE_BUF_MAXLEN |-> ValveMaxLen,
              BACKOFF_EXPONENT_CEIL |-> BackoffExp,
              ERROR_COUNT_CEIL |-> BackoffExp + 1,
              STATUS_QUEUE_SIZE |-> ValveMaxLen,
              WINDOW_DURATION |-> ValveWindow,
              CALIBRATION_THRESHOLD |-> CalThreshold]

\* Inputs of a poll: flow rates (m3/h), hopper weights (kg).
\* The status byte of the polls where the valves are not looked at: all
\* four valves stopped.
ValvesAtRest == 0
Flows == {0}
Weights == {100}

VARIABLES
    state,                 \* BatchService._state
    batch_code,            \* BatchService._batch_code
    last_batch_code,       \* BatchService._last_batch_code
    start_time,            \* BatchService._start_time
    pause_time,            \* BatchService._pause_time
    total_pause_duration,  \* BatchService._total_pause_duration
    file,                  \* data/batch_state.json
    now,                   \* datetime.now()
    result,                \* what the last call returned
    nops,                  \* calls made so far
    cooling,               \* CoolingWaterCalculator
    feeding,               \* FeedingAccumulator
    valve_batch,           \* ValveCalculatorService._openness[v].batch_code
    valve_current_batch,   \* ValveCalculatorService._current_batch_code
    valve_openness_buffers,\* valve_calculator_service._valve_openness_buffers
    arc_buffer,            \* polling_data_processor._arc_buffer
    arc_buffer_count,      \* polling_loops_v2._arc_buffer_count
    normal_buffer,         \* polling_data_processor._normal_buffer
    normal_buffer_count,   \* polling_loops_v2._normal_buffer_count
    written,               \* points the last step wrote to InfluxDB
    db,                    \* latest running totals in InfluxDB, per batch
    plc,                   \* PLCManager: _connected, _client, error counter
    rw_lock,               \* PLCManager._rw_lock: the thread holding it
    caller,                \* each thread's position in a PLCManager call
    plc_ret,               \* what the last PLCManager call returned
    running,               \* polling_loops_v2._db1_running, _db32_running, _status_running
    db1_interval,          \* polling_loops_v2._db1_interval (tenths of a second)
    task,                  \* each polling coroutine: error_count, its sleep
    stop_pc,               \* position of stop_all_polling_loops
    acc_lock,              \* the accumulators' _data_lock: the thread holding it
    valve_openness,        \* ValveCalculatorService._openness[v]
    valve_status_queues,   \* ValveCalculatorService._status_queues[v]
    valve_last_record_time,\* ValveCalculatorService._last_record_time[v]
    valve_config,          \* ValveConfigService._configs[v]
    latest_valve_status,   \* _latest_modbus_data['valve_status']
    power,                 \* PowerEnergyCalculator and what it last returned
    weight_result,         \* what read_hopper_weight last returned
    parsed                 \* what ConfigDrivenDB32Parser.parse_module last returned

sessVars == <<state, batch_code, last_batch_code, start_time, pause_time,
              total_pause_duration>>
accVars == <<cooling, feeding>>
valveVars == <<valve_batch, valve_current_batch, valve_openness_buffers>>
bufVars == <<arc_buffer, arc_buffer_count, normal_buffer, normal_buffer_count>>
plcVars == <<plc, rw_lock, caller, plc_ret>>
loopVars == <<running, db1_interval, task, stop_pc>>
estVars == <<valve_openness, valve_status_queues, valve_last_record_time,
             valve_config, latest_valve_status>>
unitVars == <<power, weight_result, parsed>>
vars == <<state, batch_code, last_batch_code, start_time, pause_time,
          total_pause_duration, file, now, result, nops, cooling, feeding,
          valve_batch, valve_current_batch, valve_openness_buffers,
          arc_buffer, arc_buffer_count, normal_buffer, normal_buffer_count,
          written, db, plc, rw_lock, caller, plc_ret, running, db1_interval,
          task, stop_pc, acc_lock, valve_openness, valve_status_queues,
          valve_last_record_time, valve_config, latest_valve_status, power,
          weight_result, parsed>>

\* ---------------------------------------------------------------- helpers
\* Python truthiness of an Optional[str].
Truthy(b) == b # Null /\ b # ""

Min(a, b) == IF a <= b THEN a ELSE b

Max(a, b) == IF a >= b THEN a ELSE b

\* deque(maxlen=n).append(x)
DequeAppend(q, x, n) ==
    IF Len(q) >= n THEN SubSeq(q, 2, Len(q)) \o <<x>> ELSE q \o <<x>>

\* The elements of a sequence.
Range(s) == {s[i] : i \in 1..Len(s)}

\* A point queued for InfluxDB: its module, device, batch_code tag, and the
\* session state at the moment it was captured (its timestamp).
Point(kind, dev, tag) == [kind |-> kind, dev |-> dev, tag |-> tag, cap |-> state]

\* What InfluxDB receives of a buffered point: the point and the session
\* state at the moment of the write.
Written(points) == {[kind |-> p.kind, dev |-> p.dev, tag |-> p.tag,
                     cap |-> p.cap, at |-> state] : p \in points}

\* --------------------------------------------------------- BatchService
\* No batch_state.json on disk.
NoFile == [exists |-> FALSE, state |-> "idle", batch_code |-> Null,
           last_batch_code |-> Null, start_time |-> NoTime,
           pause_time |-> NoTime, total_pause_duration |-> 0]

\* BatchService.is_smelting
is_smelting == state \in {"running", "paused"}

\* BatchService.is_running
is_running == state = "running"

\* _save_state_to_file as it would be if it left the accumulated pause out.
save_state_to_file_mut(st, bc, lbc, stt, pt, tpd) ==
    [exists |-> TRUE, state |-> st, batch_code |-> bc, last_batch_code |-> lbc,
     start_time |-> stt, pause_time |-> pt, total_pause_duration |-> 0]

\* BatchService._save_state_to_file: the record json.dump writes.
save_state_to_file(st, bc, lbc, stt, pt, tpd) ==
    [exists |-> TRUE, state |-> st, batch_code |-> bc, last_batch_code |-> lbc,
     start_time |-> stt, pause_time |-> pt, total_pause_duration |-> tpd]

\* polling_service.get_batch_info, as its callers read it.
get_batch_info == [batch_code |-> batch_code, is_smelting |-> is_smelting,
                   start_time |-> start_time]

\* polling_service.ensure_batch_code: the current batch code, never invented.
ensure_batch_code == batch_code

\* ------------------------------------------------------- fresh singletons
\* The threads that call the PLCManager: the event loop running the polling
\* coroutines, and a worker thread serving an HTTP request.
Threads == {"loop", "worker"}

\* Nobody holds _rw_lock.
NoThread == "none"

\* The PLCManager methods that take _rw_lock.
PlcOps == {"connect", "disconnect", "read_db", "write_db", "read_output_area",
           "update_config"}

\* The three of them that transfer data.
PlcIoOps == {"read_db", "write_db", "read_output_area"}

\* PLCManager.__init__
PlcFresh == [connected |-> FALSE, client |-> FALSE,
             consecutive_error_count |-> 0]

\* A thread that is not in a PLCManager call.
CallerIdle == [pc |-> "idle", op |-> "none", attempts |-> 0,
               was_connected |-> FALSE]

\* No PLCManager call has returned yet.
NoReturn == [thread |-> NoThread, op |-> "none", ok |-> TRUE, attempts |-> 0,
             was_connected |-> FALSE]

\* The three polling coroutines start_all_polling_loops creates, in the order
\* stop_all_polling_loops cancels and awaits them.
Tasks == {"db1", "db32", "status"}
StopOrder == <<"db1", "db32", "status">>

\* A coroutine that start_all_polling_loops has just created: no error
\* counted, no sleep begun, no iteration ended, not cancelled.
TaskFresh == [pc |-> "sleeping", error_count |-> 0, wait |-> 0,
              outcome |-> "none", cancelled |-> FALSE]

\* The accumulators, each with its own _data_lock, and the
\* ValveConfigService, whose _config_lock the valve calculator takes inside
\* its own lock (get_config in _calculate_openness_delta).
Accumulators == {"cooling", "feeding", "valve", "power", "valve_config"}

\* ValveOpenness(valve_id=i), without its batch_code (valve_batch).
OpennessFresh == [openness_percent |-> 0, current_status |-> "00",
                  last_calibration |-> Null, calibration_time |-> NoTime]

\* ValveConfig(valve_id=i): DEFAULT_FULL_ACTION_TIME both ways.
ConfigDefault == [full_open_time |-> DefaultFullTime,
                  full_close_time |-> DefaultFullTime]

\* _latest_modbus_data = {}: no DB32 block decoded yet.
NoValveStatus == [raw_byte |-> 0, state |-> [v \in Valves |-> Null],
                  status_code |-> [v \in Valves |-> Null]]
\* PowerEnergyCalculator.__init__: an empty queue, no batch, no calculation
\* yet; returned is what calculate_energy_increment last handed back
\* (energies in half kW-ticks).
NoEnergy == [energy_total_delta |-> 0, energy_total |-> 0, data_points |-> 0]
PowerFresh == [power_queue |-> <<>>, current_batch_code |-> Null,
               last_calc_time |-> NoTime, returned |-> NoEnergy,
               sink_total |-> 0]

\* weight = None of parse_weight_response and read_hopper_weight.
NoWeight == -1
\* read_hopper_weight before any read.
NoWeightResult == [success |-> FALSE, weight |-> NoWeight,
                   raw_response |-> <<>>]

\* No block decoded yet.
NoParsed == [data |-> <<>>, offset |-> 0, fields |-> <<>>,
             electrode_depth |-> [raw |-> 0, valid |-> FALSE]]
\* CoolingWaterCalculator.__init__
CoolingInit == [current_batch_code |-> Null, poll_count |-> 0,
                furnace_cover_flow_queue |-> <<>>,
                furnace_shell_flow_queue |-> <<>>]

\* FeedingAccumulator.__init__
FeedingInit == [current_batch_code |-> Null, poll_count |-> 0,
                data_queue |-> <<>>, feeding_count |-> 0]

\* CoolingWaterCalculator.reset_for_new_batch
cooling_reset_for_new_batch(b) ==
    [current_batch_code |-> b, poll_count |-> 0,
     furnace_cover_flow_queue |-> <<>>, furnace_shell_flow_queue |-> <<>>]

\* FeedingAccumulator.reset_for_new_batch
feeding_reset_for_new_batch(b) ==
    [current_batch_code |-> b, poll_count |-> 0, data_queue |-> <<>>,
     feeding_count |-> 0]

Init ==
    /\ state = "idle"
    /\ batch_code = Null
    /\ last_batch_code = Null
    /\ start_time = NoTime
    /\ pause_time = NoTime
    /\ total_pause_duration = 0
    /\ file = NoFile
    /\ now = 0
    /\ result = [op |-> "init", success |-> TRUE]
    /\ nops = 0
    /\ cooling = CoolingInit
    /\ feeding = FeedingInit
    /\ valve_batch = [v \in Valves |-> Null]
    /\ valve_current_batch = Null
    /\ valve_openness_buffers = [v \in Valves |-> <<>>]
    /\ arc_buffer = <<>>
    /\ arc_buffer_count = 0
    /\ normal_buffer = <<>>
    /\ normal_buffer_count = 0
    /\ written = {}
    /\ db = [feeding_total |-> [t \in Tags |-> 0],
             furnace_cover_water_total |-> [t \in Tags |-> 0],
             furnace_shell_water_total |-> [t \in Tags |-> 0]]
    /\ plc = PlcFresh
    /\ rw_lock = NoThread
    /\ caller = [t \in Threads |-> CallerIdle]
    /\ plc_ret = NoReturn
    /\ running = [t \in Tasks |-> TRUE]
    /\ db1_interval = DB1_INTERVAL_SLOW
    /\ task = [t \in Tasks |-> TaskFresh]
    /\ stop_pc = 0
    /\ acc_lock = [a \in Accumulators |-> NoThread]
    /\ valve_openness = [v \in Valves |-> OpennessFresh]
    /\ valve_status_queues = [v \in Valves |-> <<>>]
    /\ valve_last_record_time = [v \in Valves |-> NoTime]
    /\ valve_config = [v \in Valves |-> ConfigDefault]
    /\ latest_valve_status = NoValveStatus
    /\ power = PowerFresh
    /\ weight_result = NoWeightResult
    /\ parsed = NoParsed

\* start as it would be if a rejected call still reset the accumulators.
start_mut(b, saved) ==
    /\ nops < MaxOps
    /\ nops' = nops + 1
    /\ IF state = "running" \/ state = "paused"
       THEN /\ result' = [op |-> "start", success |-> FALSE]
            /\ cooling' = cooling_reset_for_new_batch(b)
            /\ feeding' = feeding_reset_for_new_batch(b)
            /\ UNCHANGED <<sessVars, file>>
       ELSE /\ batch_code' = b
            /\ state' = "running"
            /\ start_time' = now
            /\ pause_time' = NoTime
            /\ total_pause_duration' = 0
            /\ UNCHANGED last_batch_code
            /\ cooling' = cooling_reset_for_new_batch(b)
            /\ feeding' = feeding_reset_for_new_batch(b)
            /\ file' = IF saved
                       THEN save_state_to_file("running", b, last_batch_code,
                                               now, NoTime, 0)
                       ELSE file
            /\ result' = [op |-> "start", success |-> TRUE]
    /\ written' = {}
    /\ UNCHANGED <<now, valveVars, bufVars, db, plcVars,
                   loopVars, estVars, acc_lock, unitVars>>

\* BatchService.start (with _reset_accumulators and _save_state_to_file);
\* saved: whether the write of batch_state.json succeeded (a failure is
\* logged and swallowed).
start(b, saved) ==
    /\ nops < MaxOps
    /\ nops' = nops + 1
    /\ IF state = "running" \/ state = "paused"
       THEN /\ result' = [op |-> "start", success |-> FALSE]
            /\ UNCHANGED <<sessVars, file, accVars>>
       ELSE /\ batch_code' = b
            /\ state' = "running"
            /\ start_time' = now
            /\ pause_time' = NoTime
            /\ total_pause_duration' = 0
            /\ UNCHANGED last_batch_code
            /\ cooling' = cooling_reset_for_new_batch(b)
            /\ feeding' = feeding_reset_for_new_batch(b)
            /\ file' = IF saved
                       THEN save_state_to_file("running", b, last_batch_code,
                                               now, NoTime, 0)
                       ELSE file
            /\ result' = [op |-> "start", success |-> TRUE]
    /\ written' = {}
    /\ UNCHANGED <<now, valveVars, bufVars, db, plcVars,
                   loopVars, estVars, acc_lock, unitVars>>

\* pause as it would be if it did not record when the pause began.
pause_mut(saved) ==
    /\ nops < MaxOps
    /\ nops' = nops + 1
    /\ IF state # "running"
       THEN /\ result' = [op |-> "pause", success |-> FALSE]
            /\ UNCHANGED <<sessVars, file>>
       ELSE /\ state' = "paused"
            /\ UNCHANGED <<batch_code, last_batch_code, start_time,
                           pause_time, total_pause_duration>>
            /\ file' = IF saved
                       THEN save_state_to_file("paused", batch_code,
                                               last_batch_code, start_time,
                                               pause_time, total_pause_duration)
                       ELSE file
            /\ result' = [op |-> "pause", success |-> TRUE]
    /\ written' = {}
    /\ UNCHANGED <<now, accVars, valveVars, bufVars, db, plcVars,
                   loopVars, estVars, acc_lock, unitVars>>
\* BatchService.pause
pause(saved) ==
    /\ nops < MaxOps
    /\ nops' = nops + 1
    /\ IF state # "running"
       THEN /\ result' = [op |-> "pause", success |-> FALSE]
            /\ UNCHANGED <<sessVars, file>>
       ELSE /\ state' = "paused"
            /\ pause_time' = now
            /\ UNCHANGED <<batch_code, last_batch_code, start_time,
                           total_pause_duration>>
            /\ file' = IF saved
                       THEN save_state_to_file("paused", batch_code,
                                               last_batch_code, start_time,
                                               now, total_pause_duration)
                       ELSE file
            /\ result' = [op |-> "pause", success |-> TRUE]
    /\ written' = {}
    /\ UNCHANGED <<now, accVars, valveVars, bufVars, db, plcVars,
                   loopVars, estVars, acc_lock, unitVars>>

\* resume as it would be if it only refused an idle session.
resume_mut(saved) ==
    /\ nops < MaxOps
    /\ nops' = nops + 1
    /\ IF state = "idle"
       THEN /\ result' = [op |-> "resume", success |-> FALSE]
            /\ UNCHANGED <<sessVars, file>>
       ELSE LET tpd == IF pause_time # NoTime
                       THEN total_pause_duration + (now - pause_time)
                       ELSE total_pause_duration
            IN  /\ total_pause_duration' = tpd
                /\ state' = "running"
                /\ pause_time' = NoTime
                /\ UNCHANGED <<batch_code, last_batch_code, start_time>>
                /\ file' = IF saved
                           THEN save_state_to_file("running", batch_code,
                                                   last_batch_code, start_time,
                                                   NoTime, tpd)
                           ELSE file
                /\ result' = [op |-> "resume", success |-> TRUE]
    /\ written' = {}
    /\ UNCHANGED <<now, accVars, valveVars, bufVars, db, plcVars,
                   loopVars, estVars, acc_lock, unitVars>>

\* BatchService.resume
resume(saved) ==
    /\ nops < MaxOps
    /\ nops' = nops + 1
    /\ IF state # "paused"
       THEN /\ result' = [op |-> "resume", success |-> FALSE]
            /\ UNCHANGED <<sessVars, file>>
       ELSE LET tpd == IF pause_time # NoTime
                       THEN total_pause_duration + (now - pause_time)
                       ELSE total_pause_duration
            IN  /\ total_pause_duration' = tpd
                /\ state' = "running"
                /\ pause_time' = NoTime
                /\ UNCHANGED <<batch_code, last_batch_code, start_time>>
                /\ file' = IF saved
                           THEN save_state_to_file("running", batch_code,
                                                   last_batch_code, start_time,
                                                   NoTime, tpd)
                           ELSE file
                /\ result' = [op |-> "resume", success |-> TRUE]
    /\ written' = {}
    /\ UNCHANGED <<now, accVars, valveVars, bufVars, db, plcVars,
                   loopVars, estVars, acc_lock, unitVars>>

\* stop as it would be if the session rested in STOPPED.
stop_mut(saved) ==
    /\ nops < MaxOps
    /\ nops' = nops + 1
    /\ IF state = "idle"
       THEN /\ result' = [op |-> "stop", success |-> FALSE]
            /\ UNCHANGED <<sessVars, file>>
       ELSE /\ last_batch_code' = batch_code
            /\ state' = "stopped"
            /\ batch_code' = Null
            /\ start_time' = NoTime
            /\ pause_time' = NoTime
            /\ total_pause_duration' = 0
            /\ file' = IF saved
                       THEN save_state_to_file("stopped", Null, batch_code,
                                               NoTime, NoTime, 0)
                       ELSE file
            /\ result' = [op |-> "stop", success |-> TRUE]
    /\ written' = {}
    /\ UNCHANGED <<now, accVars, valveVars, bufVars, db, plcVars,
                   loopVars, estVars, acc_lock, unitVars>>

\* BatchService.stop
stop(saved) ==
    /\ nops < MaxOps
    /\ nops' = nops + 1
    /\ IF state = "idle"
       THEN /\ result' = [op |-> "stop", success |-> FALSE]
            /\ UNCHANGED <<sessVars, file>>
       ELSE /\ last_batch_code' = batch_code
            /\ state' = "idle"
            /\ batch_code' = Null
            /\ start_time' = NoTime
            /\ pause_time' = NoTime
            /\ total_pause_duration' = 0
            /\ file' = IF saved
                       THEN save_state_to_file("idle", Null, batch_code, NoTime,
                                               NoTime, 0)
                       ELSE file
            /\ result' = [op |-> "stop", success |-> TRUE]
    /\ written' = {}
    /\ UNCHANGED <<now, accVars, valveVars, bufVars, db, plcVars,
                   loopVars, estVars, acc_lock, unitVars>>

\* _load_state_from_file as it would be if it restored the stored state.
load_state_from_file_mut(f) ==
    IF ~f.exists
    THEN [state |-> "idle", batch_code |-> Null, last_batch_code |-> Null,
          start_time |-> NoTime, pause_time |-> NoTime,
          total_pause_duration |-> 0]
    ELSE IF f.state \in {"running", "paused"}
    THEN [state |-> f.state, batch_code |-> f.batch_code,
          last_batch_code |-> f.last_batch_code, start_time |-> f.start_time,
          pause_time |-> f.pause_time,
          total_pause_duration |-> f.total_pause_duration]
    ELSE [state |-> "idle", batch_code |-> Null,
          last_batch_code |-> f.last_batch_code, start_time |-> NoTime,
          pause_time |-> NoTime, total_pause_duration |-> 0]

\* BatchService._load_state_from_file, applied to a fresh BatchService.
load_state_from_file(f) ==
    IF ~f.exists
    THEN [state |-> "idle", batch_code |-> Null, last_batch_code |-> Null,
          start_time |-> NoTime, pause_time |-> NoTime,
          total_pause_duration |-> 0]
    ELSE IF f.state \in {"running", "paused"}
    THEN [state |-> "running", batch_code |-> f.batch_code,
          last_batch_code |-> f.last_batch_code, start_time |-> f.start_time,
          pause_time |-> NoTime,
          total_pause_duration |-> f.total_pause_duration]
    ELSE [state |-> "idle", batch_code |-> Null,
          last_batch_code |-> f.last_batch_code, start_time |-> NoTime,
          pause_time |-> NoTime, total_pause_duration |-> 0]

\* The process dies and is started again: every module-level object is
\* built anew, BatchService.__init__ loads batch_state.json; the file and
\* InfluxDB survive.
restart ==
    /\ nops < MaxOps
    /\ nops' = nops + 1
    /\ LET s == load_state_from_file(file)
       IN  /\ state' = s.state
           /\ batch_code' = s.batch_code
           /\ last_batch_code' = s.last_batch_code
           /\ start_time' = s.start_time
           /\ pause_time' = s.pause_time
           /\ total_pause_duration' = s.total_pause_duration
    /\ result' = [op |-> "restart", success |-> TRUE]
    /\ cooling' = CoolingInit
    /\ feeding' = FeedingInit
    /\ valve_batch' = [v \in Valves |-> Null]
    /\ valve_current_batch' = Null
    /\ valve_openness_buffers' = [v \in Valves |-> <<>>]
    /\ arc_buffer' = <<>>
    /\ arc_buffer_count' = 0
    /\ normal_buffer' = <<>>
    /\ normal_buffer_count' = 0
    /\ written' = {}
    /\ plc' = PlcFresh
    /\ rw_lock' = NoThread
    /\ caller' = [t \in Threads |-> CallerIdle]
    /\ plc_ret' = NoReturn
    /\ running' = [t \in Tasks |-> TRUE]
    /\ db1_interval' = DB1_INTERVAL_SLOW
    /\ task' = [t \in Tasks |-> TaskFresh]
    /\ stop_pc' = 0
    /\ acc_lock' = [a \in Accumulators |-> NoThread]
    /\ valve_openness' = [v \in Valves |-> OpennessFresh]
    /\ valve_status_queues' = [v \in Valves |-> <<>>]
    /\ valve_last_record_time' = [v \in Valves |-> NoTime]
    /\ latest_valve_status' = NoValveStatus
    /\ power' = PowerFresh
    /\ weight_result' = NoWeightResult
    /\ parsed' = NoParsed
    /\ UNCHANGED <<file, now, db, valve_config>>

\* Time passes.
Tick ==
    /\ now < MaxTime
    /\ now' = now + 1
    /\ written' = {}
    /\ UNCHANGED <<sessVars, file, result, nops, accVars, valveVars, bufVars,
                   db, plcVars, loopVars, estVars, acc_lock, unitVars>>

\* elapsed_seconds as it would be if the pause in progress were not taken
\* off.
elapsed_seconds_mut ==
    IF start_time = NoTime
    THEN 0
    ELSE (now - start_time) - total_pause_duration

\* BatchService.elapsed_seconds
elapsed_seconds ==
    IF start_time = NoTime
    THEN 0
    ELSE LET total == now - start_time
             current_pause == now - pause_time
         IN  (IF state = "paused" /\ pause_time # NoTime
              THEN total - current_pause
              ELSE total) - total_pause_duration

\* ------------------------------------------------- persistence sink access
\* One point an accumulator writes with write_point.
TotalPoint(kind, dev, tag) ==
    [kind |-> kind, dev |-> dev, tag |-> tag, cap |-> state, at |-> state]

RECURSIVE SumSeq(_)
SumSeq(q) == IF q = <<>> THEN 0 ELSE Head(q) + SumSeq(Tail(q))

\* The last n elements of a list (list(q)[-n:]).
LastN(q, n) == SubSeq(q, Len(q) - Min(n, Len(q)) + 1, Len(q))

\* ------------------------------------------------ CoolingWaterCalculator
\* CoolingWaterCalculator.add_measurement
cooling_add_measurement(cfg, c, cover_flow, shell_flow) ==
    [c EXCEPT !.furnace_cover_flow_queue =
                  DequeAppend(@, cover_flow, cfg.COOL_QUEUE_SIZE),
              !.furnace_shell_flow_queue =
                  DequeAppend(@, shell_flow, cfg.COOL_QUEUE_SIZE),
              !.poll_count = @ + 1]

\* The volume increment of one circuit, in units of 15/(3600*CALC_WINDOW) m3:
\* the mean of the last CALC_WINDOW flows times 15 s.
volume_delta(cfg, q) ==
    IF Len(q) >= cfg.CALC_WINDOW THEN SumSeq(LastN(q, cfg.CALC_WINDOW)) ELSE 0

\* CoolingWaterCalculator._get_latest_from_database (0.0 when the query fails)
cooling_get_latest(d, tag, query_ok) ==
    IF Truthy(tag) /\ query_ok
    THEN [cover |-> d.furnace_cover_water_total[tag],
          shell |-> d.furnace_shell_water_total[tag]]
    ELSE [cover |-> 0, shell |-> 0]

\* CoolingWaterCalculator.calculate_volume_increment: the calculator, the
\* totals in InfluxDB and the points written, after the trigger.
calculate_volume_increment(cfg, c, d, query_ok, w) ==
    LET tag == c.current_batch_code
        latest == cooling_get_latest(d, tag, query_ok)
        new_cover == latest.cover + volume_delta(cfg, c.furnace_cover_flow_queue)
        new_shell == latest.shell + volume_delta(cfg, c.furnace_shell_flow_queue)
    IN  [cooling |-> [c EXCEPT !.poll_count = 0],
         db |-> [d EXCEPT
                   !.furnace_cover_water_total[tag] =
                       IF w.cover THEN new_cover ELSE @,
                   !.furnace_shell_water_total[tag] =
                       IF w.shell THEN new_shell ELSE @],
         written |->
             (IF w.cover
              THEN {TotalPoint("furnace_cover_water_total", "furnace_1", tag)}
              ELSE {})
             \cup
             (IF w.shell
              THEN {TotalPoint("furnace_shell_water_total", "furnace_1", tag)}
              ELSE {})]

\* ----------------------------------------------------- FeedingAccumulator
\* FeedingAccumulator.add_measurement
feeding_add_measurement(cfg, f, weight_kg, is_discharging) ==
    [f EXCEPT !.data_queue =
                  DequeAppend(@, [weight |-> weight_kg,
                                  is_discharging |-> is_discharging],
                              cfg.FEED_QUEUE_SIZE),
              !.poll_count = @ + 1]

\* First index after the run of is_discharging samples that starts at i.
RECURSIVE RunEnd(_, _)
RunEnd(L, i) ==
    IF i <= Len(L) /\ L[i].is_discharging THEN RunEnd(L, i + 1) ELSE i

\* Weights of L[a..b].
Weights_of(L, a, b) == [j \in 1..(b - a + 1) |-> L[a + j - 1].weight]

RECURSIVE feeding_events_mut(_, _)
\* The scan as it would be if every run that lost weight counted, without
\* the floor of MIN_FEEDING_KG.
feeding_events_mut(L, i) ==
    IF i > Len(L) THEN <<>>
    ELSE IF L[i].is_discharging
    THEN LET start_idx == i
             end_idx == RunEnd(L, i) - 1
             n == Min(AVG_POINTS, end_idx - start_idx + 1)
             amount6 == (SumSeq(Weights_of(L, start_idx, start_idx + n - 1))
                         - SumSeq(Weights_of(L, end_idx - n + 1, end_idx)))
                        * (6 \div n)
         IN  (IF end_idx - start_idx >= 1 /\ amount6 > 0
              THEN <<amount6>> ELSE <<>>)
             \o feeding_events_mut(L, end_idx + 1)
    ELSE feeding_events_mut(L, i + 1)

\* The feeding events of calculate_feeding's scan from index i on: the
\* accepted amounts, in sixths of a kilogram (averages of 2 or 3 samples).
RECURSIVE feeding_events(_, _)
feeding_events(L, i) ==
    IF i > Len(L) THEN <<>>
    ELSE IF L[i].is_discharging
    THEN LET start_idx == i
             end_idx == RunEnd(L, i) - 1
             n == Min(AVG_POINTS, end_idx - start_idx + 1)
             amount6 == (SumSeq(Weights_of(L, start_idx, start_idx + n - 1))
                         - SumSeq(Weights_of(L, end_idx - n + 1, end_idx)))
                        * (6 \div n)
         IN  (IF end_idx - start_idx >= 1 /\ amount6 >= 6 * MIN_FEEDING_KG
              THEN <<amount6>> ELSE <<>>)
             \o feeding_events(L, end_idx + 1)
    ELSE feeding_events(L, i + 1)

\* _get_latest_from_database as it would be if the stored total were not
\* read back.
feeding_get_latest_mut(d, tag, query_ok) ==
    IF Truthy(tag) /\ query_ok THEN 0 ELSE 0

\* FeedingAccumulator._get_latest_from_database (0.0 when the query fails)
feeding_get_latest(d, tag, query_ok) ==
    IF Truthy(tag) /\ query_ok THEN d.feeding_total[tag] ELSE 0

\* FeedingAccumulator.calculate_feeding: the accumulator, the total in
\* InfluxDB and the points written, after the trigger.
calculate_feeding(cfg, f, d, query_ok, w) ==
    IF Len(f.data_queue) < cfg.FEED_MIN_QUEUE
    THEN [feeding |-> [f EXCEPT !.poll_count = 0], db |-> d, written |-> {}]
    ELSE LET tag == f.current_batch_code
             events == feeding_events(f.data_queue, 1)
             new_total == feeding_get_latest(d, tag, query_ok) + SumSeq(events)
         IN  [feeding |-> [f EXCEPT !.poll_count = 0,
                                    !.feeding_count = @ + Len(events)],
              db |-> [d EXCEPT !.feeding_total[tag] =
                                   IF w.feeding THEN new_total ELSE @],
              written |-> IF w.feeding
                          THEN {TotalPoint("feeding_total", "hopper_1", tag)}
                          ELSE {}]

\* FeedingAccumulator.get_feeding_total
get_feeding_total(f, d, query_ok) ==
    IF Truthy(f.current_batch_code)
    THEN feeding_get_latest(d, f.current_batch_code, query_ok)
    ELSE 0

\* CoolingWaterCalculator.get_total_volumes
get_total_volumes(c, d, query_ok) ==
    IF Truthy(c.current_batch_code)
    THEN cooling_get_latest(d, c.current_batch_code, query_ok)
    ELSE [cover |-> 0, shell |-> 0]
\* ------------------------------------------------ ValveCalculatorService
\* ValveCalculatorService._add_to_write_buffer for valve v.
add_to_write_buffer(cfg, buffers, v) ==
    IF ~Truthy(valve_batch[v])
    THEN buffers[v]
    ELSE DequeAppend(buffers[v],
                     Point("valve_openness", ValveName(v), valve_batch[v]),
                     cfg.VALVE_BUF_MAXLEN)

\* (byte >> k) & 1
Bit(byte, k) == (byte \div (2 ^ k)) % 2

\* f"{first}{second}" of two bits.
StatusString(first, second) ==
    IF first = 0 THEN (IF second = 0 THEN "00" ELSE "01")
    ELSE (IF second = 0 THEN "10" ELSE "11")

\* ConfigDrivenDB32Parser.parse_all, ValveStatusMonitor: bit_close is the
\* even bit, bit_open the odd one, status_code = f"{bit_open}{bit_close}".
parse_status_code(status_byte, v) ==
    StatusString(Bit(status_byte, (v - 1) * 2 + 1), Bit(status_byte, (v - 1) * 2))

\* The decoder's classification of a status code.
parse_state(status_code) ==
    IF status_code = "01" THEN "OPEN"
    ELSE IF status_code = "10" THEN "CLOSED"
    ELSE IF status_code = "00" THEN "STOPPED"
    ELSE "ERROR"

\* result['valve_status'] of one decoded DB32 block.
parse_valve_status(status_byte) ==
    [raw_byte |-> status_byte,
     state |-> [v \in Valves |-> parse_state(parse_status_code(status_byte, v))],
     status_code |-> [v \in Valves |-> parse_status_code(status_byte, v)]]

\* ValveCalculatorService.batch_add_statuses: the status handed to
\* add_status, f"{bit_close}{bit_open}".
batch_status(status_byte, v) ==
    StatusString(Bit(status_byte, (v - 1) * 2), Bit(status_byte, (v - 1) * 2 + 1))

\* _calculate_openness_delta: interval in tenths of a second, travel times
\* in seconds, openness in percent ("01" adds and is clamped above only,
\* "10" subtracts and is clamped below only).
calculate_openness_delta(percent, status, interval, config) ==
    IF status = "01"
    THEN Min(100, percent + (interval * 10) \div config.full_open_time)
    ELSE IF status = "10"
    THEN Max(0, percent - (interval * 10) \div config.full_close_time)
    ELSE percent

RECURSIVE cleanup_old_records(_, _)
\* _cleanup_old_records: pop from the left while the oldest record is older
\* than the cutoff.
cleanup_old_records(queue, cutoff) ==
    IF queue # <<>> /\ Head(queue).timestamp < cutoff
    THEN cleanup_old_records(Tail(queue), cutoff)
    ELSE queue

RECURSIVE SumIntervals(_)
\* sum(r.interval for r in records)
SumIntervals(records) ==
    IF records = <<>> THEN 0
    ELSE Head(records).interval + SumIntervals(Tail(records))

\* _check_calibration at wall-clock time clock: the valve's openness state
\* afterwards.  A snap happens only if the last calibration was not already
\* of the same kind.
check_calibration(cfg, openness, queue, clock) ==
    LET recent == SelectSeq(queue, LAMBDA r :
                      r.timestamp >= clock - cfg.CALIBRATION_THRESHOLD)
        statuses == {recent[i].status : i \in 1..Len(recent)}
    IN  IF queue = <<>> \/ recent = <<>> THEN openness
        ELSE IF SumIntervals(recent) < 9 * cfg.CALIBRATION_THRESHOLD
        THEN openness
        ELSE IF statuses = {"10"} /\ openness.last_calibration # "full_close"
        THEN [openness EXCEPT !.openness_percent = 0,
                              !.last_calibration = "full_close",
                              !.calibration_time = clock]
        ELSE IF statuses = {"01"} /\ openness.last_calibration # "full_open"
        THEN [openness EXCEPT !.openness_percent = 100,
                              !.last_calibration = "full_open",
                              !.calibration_time = clock]
        ELSE openness

\* ValveCalculatorService.add_status for one valve, without the write
\* buffer: the interval since the previous record (POLLING_INTERVAL for the
\* first), the record appended, the integration, the cleanup and the
\* calibration check.
add_status(cfg, v, status, timestamp, clock) ==
    LET last == valve_last_record_time[v]
        interval == IF last # NoTime THEN 10 * (timestamp - last)
                    ELSE POLLING_INTERVAL
        record == [status |-> status, timestamp |-> timestamp,
                   interval |-> interval]
        q1 == DequeAppend(valve_status_queues[v], record, cfg.STATUS_QUEUE_SIZE)
        o1 == [valve_openness[v] EXCEPT
                  !.current_status = status,
                  !.openness_percent =
                      calculate_openness_delta(@, status, interval,
                                               valve_config[v])]
        q2 == cleanup_old_records(q1, timestamp - cfg.WINDOW_DURATION)
    IN  [openness |-> check_calibration(cfg, o1, q2, clock),
         queue |-> q2,
         last_record_time |-> timestamp]
\* ValveCalculatorService.batch_add_statuses: add_status for valves 1..4.
batch_add_statuses(cfg, buffers) ==
    [v \in Valves |-> add_to_write_buffer(cfg, buffers, v)]

\* flush_valve_openness_buffers: the buffers and the points written.
flush_valve_openness_buffers(buffers, ok) ==
    [buffers |-> [v \in Valves |-> <<>>],
     written |-> IF is_smelting /\ ok
                 THEN Written(UNION {Range(buffers[v]) : v \in Valves})
                 ELSE {}]

\* ValveCalculatorService.reset_openness (POST /api/valve/openness/reset)
reset_openness(valve_id, b) ==
    /\ nops < MaxOps
    /\ nops' = nops + 1
    /\ valve_batch' = [v \in Valves |->
                          IF valve_id = AllValves \/ valve_id = v
                          THEN b ELSE valve_batch[v]]
    /\ valve_current_batch' = b
    /\ valve_openness' = [v \in Valves |->
                             IF valve_id = AllValves \/ valve_id = v
                             THEN [valve_openness[v] EXCEPT
                                      !.openness_percent = 0,
                                      !.last_calibration = Null,
                                      !.calibration_time = NoTime]
                             ELSE valve_openness[v]]
    /\ valve_status_queues' = [v \in Valves |->
                                  IF valve_id = AllValves \/ valve_id = v
                                  THEN <<>> ELSE valve_status_queues[v]]
    /\ valve_last_record_time' = [v \in Valves |->
                                     IF valve_id = AllValves \/ valve_id = v
                                     THEN NoTime ELSE valve_last_record_time[v]]
    /\ result' = [op |-> "reset_openness", success |-> TRUE]
    /\ written' = {}
    /\ UNCHANGED <<sessVars, file, now, accVars, valve_openness_buffers,
                   bufVars, db, plcVars, loopVars,
                   acc_lock, unitVars, valve_config,
                   latest_valve_status>>

\* ------------------------------------------------------- polling_loops_v2
\* wait_time = min(MAX_ERROR_WAIT, 2 ** min(error_count - 1, 4)), in tenths
\* of a second.
backoff(cfg, error_count) ==
    Min(MAX_ERROR_WAIT, 10 * 2 ^ Min(error_count - 1, cfg.BACKOFF_EXPONENT_CEIL))

\* The loop is at its sleep and neither stopped nor cancelled: it goes on
\* to an iteration.
task_ready(t) == running[t] /\ task[t].pc = "sleeping" /\ ~task[t].cancelled

\* The except branch as it would be if the loops shared one error counter.
iteration_failed_mut(cfg, t) ==
    [u \in Tasks |->
        LET n == Min(task[u].error_count + 1, cfg.ERROR_COUNT_CEIL)
        IN  [task[u] EXCEPT !.error_count = n, !.wait = backoff(cfg, n),
                            !.outcome = IF u = t THEN "failed" ELSE @]]

\* except Exception: error_count += 1, then the sleep of the back-off.
iteration_failed(cfg, t) ==
    LET n == Min(task[t].error_count + 1, cfg.ERROR_COUNT_CEIL)
    IN  [task EXCEPT ![t].error_count = n, ![t].wait = backoff(cfg, n),
                     ![t].outcome = "failed"]

\* The end of the try block: error_count = 0, then the sleep of the interval.
iteration_succeeded(t, interval) ==
    [task EXCEPT ![t].error_count = 0, ![t].wait = interval,
                 ![t].outcome = "ok"]

\* await asyncio.sleep(_db1_interval) as it would be if the loop had taken
\* its interval once, when it was created.
db1_sleep_mut == DB1_INTERVAL_SLOW

\* await asyncio.sleep(_db1_interval): the global is read at every sleep.
db1_sleep == db1_interval

\* An empty read in the DB1 and DB32 loops: sleep(1) and continue, the
\* error count neither raised nor reset.
iteration_nodata(t) ==
    [task EXCEPT ![t].wait = EMPTY_READ_WAIT, ![t].outcome = "nodata"]
\* ------------------------------------------------- polling_data_processor
\* FurnaceConverter.convert_to_points: three electrode depths, two
\* pressures, two flows.
convert_to_points(b) ==
    <<Point("electrode_depth", "LENTH1", b),
      Point("electrode_depth", "LENTH2", b),
      Point("electrode_depth", "LENTH3", b),
      Point("cooling_pressure", "WATER_PRESS_1", b),
      Point("cooling_pressure", "WATER_PRESS_2", b),
      Point("cooling_flow", "WATER_FLOW_1", b),
      Point("cooling_flow", "WATER_FLOW_2", b)>>

RECURSIVE Extend(_, _, _)
\* deque(maxlen=n).extend(points)
Extend(q, points, n) ==
    IF points = <<>> THEN q
    ELSE Extend(DequeAppend(q, Head(points), n), Tail(points), n)

\* flush_arc_buffer / flush_normal_buffer: what is written of a buffer (the
\* buffer is empty afterwards in every branch).
flush_buffer(buffer, ok) ==
    IF buffer # <<>> /\ is_running /\ ok THEN Written(Range(buffer)) ELSE {}

\* process_arc_data: one arc_data point appended.
process_arc_data(buffer, b) ==
    DequeAppend(buffer, Point("arc_data", "electrode", b), ARC_BUFFER_MAXLEN)

\* One iteration of _db1_arc_polling_loop as it would be without the gate
\* on the session.
db1_iteration_mut(cfg, ok) ==
    LET info == get_batch_info
        buf == process_arc_data(arc_buffer,
                                IF Truthy(info.batch_code)
                                THEN info.batch_code ELSE "A")
        cnt == arc_buffer_count + 1
    IN  /\ task_ready("db1")
        /\ IF cnt >= cfg.arc_batch_size
           THEN /\ written' = flush_buffer(buf, ok)
                /\ arc_buffer' = <<>>
                /\ arc_buffer_count' = 0
           ELSE /\ arc_buffer' = buf
                /\ arc_buffer_count' = cnt
                /\ written' = {}
        /\ task' = iteration_succeeded("db1", db1_sleep)
        /\ UNCHANGED <<sessVars, file, now, result, nops, accVars, valveVars,
                       normal_buffer, normal_buffer_count, db, plcVars,
                       running, db1_interval, stop_pc, estVars,
                       acc_lock, unitVars>>

\* One iteration of _db1_arc_polling_loop whose read succeeded.
db1_iteration(cfg, ok) ==
    LET info == get_batch_info
        buf == IF info.is_smelting /\ Truthy(info.batch_code)
               THEN process_arc_data(arc_buffer, info.batch_code)
               ELSE arc_buffer
        cnt == arc_buffer_count + 1
    IN  /\ task_ready("db1")
        /\ IF cnt >= cfg.arc_batch_size
           THEN /\ written' = flush_buffer(buf, ok)
                /\ arc_buffer' = <<>>
                /\ arc_buffer_count' = 0
           ELSE /\ arc_buffer' = buf
                /\ arc_buffer_count' = cnt
                /\ written' = {}
        /\ task' = iteration_succeeded("db1", db1_sleep)
        /\ UNCHANGED <<sessVars, file, now, result, nops, accVars, valveVars,
                       normal_buffer, normal_buffer_count, db, plcVars,
                       running, db1_interval, stop_pc, estVars,
                       acc_lock, unitVars>>

\* The iteration as it would be if a flush that failed kept its points for
\* the next flush.
db32_iteration_mut(cfg, cover_flow, shell_flow, weight_data, is_discharging, query_ok, w, status_byte) ==
    LET \* process_modbus_data
        c1 == cooling_add_measurement(cfg, cooling, cover_flow, shell_flow)
        cool == IF c1.poll_count >= cfg.CALC_WINDOW
                THEN calculate_volume_increment(cfg, c1, db, query_ok, w)
                ELSE [cooling |-> c1, db |-> db, written |-> {}]
        b == ensure_batch_code
        nb1 == IF Truthy(b)
               THEN Extend(normal_buffer,
                           convert_to_points(b)
                           \o <<Point("cooling_water_total", "furnace_1", b)>>,
                           NORMAL_BUFFER_MAXLEN)
               ELSE normal_buffer
        \* process_weight_data
        info == get_batch_info
        weighed == /\ info.is_smelting /\ Truthy(info.batch_code)
                   /\ weight_data.success
        f1 == feeding_add_measurement(cfg, feeding, weight_data.weight,
                                      is_discharging)
        feed == IF ~weighed
                THEN [feeding |-> feeding, db |-> cool.db, written |-> {}]
                ELSE IF f1.poll_count >= cfg.CALC_INTERVAL
                THEN calculate_feeding(cfg, f1, cool.db, query_ok, w)
                ELSE [feeding |-> f1, db |-> cool.db, written |-> {}]
        nb2 == IF weighed
               THEN DequeAppend(nb1,
                                Point("hopper_weight", "hopper_1",
                                      info.batch_code),
                                NORMAL_BUFFER_MAXLEN)
               ELSE nb1
        cnt == normal_buffer_count + 1
        flushed == IF cnt >= cfg.normal_batch_size
                   THEN flush_buffer(nb2, w.flush) ELSE {}
        est == [v \in Valves |->
                   add_status(cfg, v, batch_status(status_byte, v), now, now)]
    IN  /\ task_ready("db32")
        /\ cooling' = cool.cooling
        /\ feeding' = feed.feeding
        /\ db' = feed.db
        /\ latest_valve_status' = parse_valve_status(status_byte)
        /\ valve_openness' = [v \in Valves |-> est[v].openness]
        /\ valve_status_queues' = [v \in Valves |-> est[v].queue]
        /\ valve_last_record_time' = [v \in Valves |-> est[v].last_record_time]
        /\ valve_openness_buffers' =
               batch_add_statuses(cfg, valve_openness_buffers)
        /\ normal_buffer' = IF cnt >= cfg.normal_batch_size /\ w.flush
                            THEN <<>> ELSE nb2
        /\ normal_buffer_count' = IF cnt >= cfg.normal_batch_size THEN 0 ELSE cnt
        /\ written' = cool.written \cup feed.written \cup flushed
        /\ task' = iteration_failed(cfg, "db32")
        /\ UNCHANGED <<sessVars, file, now, result, nops, valve_batch,
                       valve_current_batch, arc_buffer, arc_buffer_count,
                       plcVars, running, db1_interval, stop_pc, valve_config,
                       acc_lock, unitVars>>

\* One iteration of _db32_sensor_polling_loop whose read succeeded:
\* process_modbus_data, process_weight_data, the count and flush of the
\* sensor buffer.  The statement after that, _valve_buffer_count += 1,
\* assigns a name the function never declares global, so it raises
\* UnboundLocalError and the iteration ends in the except branch:
\* flush_valve_openness_buffers is never called.
db32_iteration(cfg, cover_flow, shell_flow, weight_data, is_discharging, query_ok, w, status_byte) ==
    LET \* process_modbus_data
        c1 == cooling_add_measurement(cfg, cooling, cover_flow, shell_flow)
        cool == IF c1.poll_count >= cfg.CALC_WINDOW
                THEN calculate_volume_increment(cfg, c1, db, query_ok, w)
                ELSE [cooling |-> c1, db |-> db, written |-> {}]
        b == ensure_batch_code
        nb1 == IF Truthy(b)
               THEN Extend(normal_buffer,
                           convert_to_points(b)
                           \o <<Point("cooling_water_total", "furnace_1", b)>>,
                           NORMAL_BUFFER_MAXLEN)
               ELSE normal_buffer
        \* process_weight_data
        info == get_batch_info
        weighed == /\ info.is_smelting /\ Truthy(info.batch_code)
                   /\ weight_data.success
        f1 == feeding_add_measurement(cfg, feeding, weight_data.weight,
                                      is_discharging)
        feed == IF ~weighed
                THEN [feeding |-> feeding, db |-> cool.db, written |-> {}]
                ELSE IF f1.poll_count >= cfg.CALC_INTERVAL
                THEN calculate_feeding(cfg, f1, cool.db, query_ok, w)
                ELSE [feeding |-> f1, db |-> cool.db, written |-> {}]
        nb2 == IF weighed
               THEN DequeAppend(nb1,
                                Point("hopper_weight", "hopper_1",
                                      info.batch_code),
                                NORMAL_BUFFER_MAXLEN)
               ELSE nb1
        cnt == normal_buffer_count + 1
        flushed == IF cnt >= cfg.normal_batch_size
                   THEN flush_buffer(nb2, w.flush) ELSE {}
        est == [v \in Valves |->
                   add_status(cfg, v, batch_status(status_byte, v), now, now)]
    IN  /\ task_ready("db32")
        /\ cooling' = cool.cooling
        /\ feeding' = feed.feeding
        /\ db' = feed.db
        /\ latest_valve_status' = parse_valve_status(status_byte)
        /\ valve_openness' = [v \in Valves |-> est[v].openness]
        /\ valve_status_queues' = [v \in Valves |-> est[v].queue]
        /\ valve_last_record_time' = [v \in Valves |-> est[v].last_record_time]
        /\ valve_openness_buffers' =
               batch_add_statuses(cfg, valve_openness_buffers)
        /\ normal_buffer' = IF cnt >= cfg.normal_batch_size THEN <<>> ELSE nb2
        /\ normal_buffer_count' = IF cnt >= cfg.normal_batch_size THEN 0 ELSE cnt
        /\ written' = cool.written \cup feed.written \cup flushed
        /\ task' = iteration_failed(cfg, "db32")
        /\ UNCHANGED <<sessVars, file, now, result, nops, valve_batch,
                       valve_current_batch, arc_buffer, arc_buffer_count,
                       plcVars, running, db1_interval, stop_pc, valve_config,
                       acc_lock, unitVars>>

\* Outcomes of the writes of one iteration (the two cooling-water totals,
\* the feeding total, the batch write of a flush): InfluxDB is up or down.
WriteOutcomes == {[cover |-> ok, shell |-> ok, feeding |-> ok, flush |-> ok] :
                  ok \in BOOLEAN}

\* read_hopper_weight results.
WeightData == {[success |-> TRUE, weight |-> x] : x \in Weights}
              \cup {[success |-> FALSE, weight |-> 0]}

\* A DB1 poll, InfluxDB up or down.
db1_poll == \E ok \in BOOLEAN : db1_iteration(ScaledCfg, ok)

\* A DB32 poll: the hopper read succeeds or fails, InfluxDB is up or down.
db32_poll ==
    \E cover_flow \in Flows, shell_flow \in Flows, weight_data \in WeightData,
       w \in WriteOutcomes :
        db32_iteration(ScaledCfg, cover_flow, shell_flow, weight_data, FALSE,
                       TRUE, w,
                       ValvesAtRest)

\* A DB32 poll in which every read and write succeeds.
db32_poll_ok ==
    \E cover_flow \in Flows, shell_flow \in Flows, x \in Weights :
        db32_iteration(ScaledCfg, cover_flow, shell_flow,
                       [success |-> TRUE, weight |-> x], FALSE, TRUE,
                       [cover |-> TRUE, shell |-> TRUE, feeding |-> TRUE,
                        flush |-> TRUE],
                       ValvesAtRest)

\* POST /api/valve/openness/reset without a valve_id.
valve_reset ==
    \E b \in BatchIds \cup {Null} : reset_openness(AllValves, b)

\* The four session calls of /api/batch: start with a batch code from ids,
\* the state file written or not as saves allows.
session_call(ids, saves) ==
    \/ \E b \in ids, saved \in saves : start(b, saved)
    \/ \E saved \in saves : pause(saved)
    \/ \E saved \in saves : resume(saved)
    \/ \E saved \in saves : stop(saved)

\* The session with the wall clock, crashes, and the sensor loop feeding the
\* accumulators.
NextSession ==
    \/ session_call(BatchIds \cup {""}, BOOLEAN)
    \/ restart
    \/ Tick
    \/ db32_poll_ok

SpecSession == Init /\ [][NextSession]_vars

\* The session, crashes, the valve reset and both polling loops.
NextGate ==
    \/ session_call(BatchIds, {TRUE})
    \/ restart
    \/ valve_reset
    \/ db1_poll
    \/ db32_poll

SpecGate == Init /\ [][NextGate]_vars

\* A DB32 poll whose hopper read succeeds, InfluxDB up or down.
db32_poll_weighed ==
    \E cover_flow \in Flows, shell_flow \in Flows, x \in Weights,
       w \in WriteOutcomes :
        db32_iteration(ScaledCfg, cover_flow, shell_flow,
                       [success |-> TRUE, weight |-> x], FALSE, TRUE, w,
                       ValvesAtRest)

\* The session, crashes and the two polling loops feeding the processor's
\* buffers.
NextEnqueue ==
    \/ session_call(BatchIds, {TRUE})
    \/ restart
    \/ db1_poll
    \/ db32_poll_weighed

SpecEnqueue == Init /\ [][NextEnqueue]_vars

\* The files a crashed process can leave behind: a session of batch b begun
\* at time 0, Running or Paused, with some pause already accumulated.
RecoveredFiles ==
    {save_state_to_file(st, b, Null, 0,
                        IF st = "paused" THEN MaxPriorPause ELSE NoTime, tpd) :
        st \in {"running", "paused"}, b \in BatchIds, tpd \in 0..MaxPriorPause}

\* The process comes up on such a file: BatchService.__init__ loads it and
\* every other singleton is fresh.
InitRecovered ==
    /\ file \in RecoveredFiles
    /\ LET s == load_state_from_file(file)
       IN  /\ state = s.state
           /\ batch_code = s.batch_code
           /\ last_batch_code = s.last_batch_code
           /\ start_time = s.start_time
           /\ pause_time = s.pause_time
           /\ total_pause_duration = s.total_pause_duration
    /\ now = MaxPriorPause
    /\ result = [op |-> "init", success |-> TRUE]
    /\ nops = 0
    /\ cooling = CoolingInit
    /\ feeding = FeedingInit
    /\ valve_batch = [v \in Valves |-> Null]
    /\ valve_current_batch = Null
    /\ valve_openness_buffers = [v \in Valves |-> <<>>]
    /\ arc_buffer = <<>>
    /\ arc_buffer_count = 0
    /\ normal_buffer = <<>>
    /\ normal_buffer_count = 0
    /\ written = {}
    /\ db = [feeding_total |-> [t \in Tags |-> 0],
             furnace_cover_water_total |-> [t \in Tags |-> 0],
             furnace_shell_water_total |-> [t \in Tags |-> 0]]
    /\ plc = PlcFresh
    /\ rw_lock = NoThread
    /\ caller = [t \in Threads |-> CallerIdle]
    /\ plc_ret = NoReturn
    /\ running = [t \in Tasks |-> TRUE]
    /\ db1_interval = DB1_INTERVAL_SLOW
    /\ task = [t \in Tasks |-> TaskFresh]
    /\ stop_pc = 0
    /\ acc_lock = [a \in Accumulators |-> NoThread]
    /\ valve_openness = [v \in Valves |-> OpennessFresh]
    /\ valve_status_queues = [v \in Valves |-> <<>>]
    /\ valve_last_record_time = [v \in Valves |-> NoTime]
    /\ valve_config = [v \in Valves |-> ConfigDefault]
    /\ latest_valve_status = NoValveStatus
    /\ power = PowerFresh
    /\ weight_result = NoWeightResult
    /\ parsed = NoParsed

\* A recovered session with the wall clock and further crashes, every write
\* of batch_state.json succeeding (SpecSession covers the failed write).
NextRecovered ==
    \/ session_call(BatchIds \cup {""}, {TRUE})
    \/ restart
    \/ Tick

SpecRecovered == InitRecovered /\ [][NextRecovered]_vars
\* Thresholds under which the feeding window holds a whole feeding event.
ContCfg == [ScaledCfg EXCEPT !.CALC_INTERVAL = ContFeedInterval,
                             !.FEED_QUEUE_SIZE = ContFeedInterval]

\* Inputs of a poll while water flows and the hopper discharges.
ContFlows == {3}
ContWeights == {100, 97}

\* The running totals in InfluxDB.
Totals(d) ==
    {d.feeding_total[t] : t \in Tags}
    \cup {d.furnace_cover_water_total[t] : t \in Tags}
    \cup {d.furnace_shell_water_total[t] : t \in Tags}

\* A DB32 poll with water flowing and the hopper discharging, every read,
\* query and write succeeding (followed while the totals stay in range).
db32_poll_flowing ==
    /\ \E cover_flow \in ContFlows, shell_flow \in ContFlows,
          x \in ContWeights :
           db32_iteration(ContCfg, cover_flow, shell_flow,
                          [success |-> TRUE, weight |-> x], TRUE, TRUE,
                          [cover |-> TRUE, shell |-> TRUE, feeding |-> TRUE,
                           flush |-> TRUE],
                       ValvesAtRest)
    /\ \A x \in Totals(db') : x <= MaxTotal

\* Sessions stopped and started again while the sensor loop accumulates.
NextContinuation ==
    \/ session_call(BatchIds, {TRUE})
    \/ db32_poll_flowing

SpecContinuation == Init /\ [][NextContinuation]_vars
\* A DB32 poll with water flowing and the hopper discharging, the query for
\* the latest totals succeeding or failing, every write succeeding
\* (followed while the totals stay in range).
db32_poll_queried ==
    /\ \E cover_flow \in ContFlows, shell_flow \in ContFlows,
          x \in ContWeights, query_ok \in BOOLEAN :
           db32_iteration(ContCfg, cover_flow, shell_flow,
                          [success |-> TRUE, weight |-> x], TRUE, query_ok,
                          [cover |-> TRUE, shell |-> TRUE, feeding |-> TRUE,
                           flush |-> TRUE],
                          ValvesAtRest)
    /\ \A x \in Totals(db') : x <= MaxTotal
    /\ feeding'.feeding_count <= MaxFeedingCount

\* One session while the sensor loop accumulates and InfluxDB answers the
\* accumulators' queries or not.
NextQuery ==
    \/ start("A", TRUE)
    \/ db32_poll_queried

SpecQuery == Init /\ [][NextQuery]_vars
\* Outcomes of the writes of one iteration when InfluxDB comes or goes
\* between the accumulators' writes and the flush.
FlushOutcomes == {[cover |-> a, shell |-> a, feeding |-> a, flush |-> f] :
                  a \in BOOLEAN, f \in BOOLEAN}

\* A DB32 poll whose reads succeed, each write succeeding or failing on its
\* own.
db32_poll_outcomes ==
    \E cover_flow \in Flows, shell_flow \in Flows, x \in Weights,
       w \in FlushOutcomes :
        db32_iteration(ScaledCfg, cover_flow, shell_flow,
                       [success |-> TRUE, weight |-> x], FALSE, TRUE, w,
                       ValvesAtRest)

\* The session, crashes and the two polling loops with their flushes.
NextFlush ==
    \/ session_call(BatchIds, {TRUE})
    \/ restart
    \/ db1_poll
    \/ db32_poll_outcomes

SpecFlush == Init /\ [][NextFlush]_vars
\* The loops' thresholds as it would be if the arc task flushed one sample
\* late.
RealCfg_mut == [ScaledCfg EXCEPT !.arc_batch_size = arc_batch_size + 1,
                                 !.normal_batch_size = normal_batch_size]

\* The loops run with the batch sizes of the code.
RealCfg == [ScaledCfg EXCEPT !.arc_batch_size = arc_batch_size,
                             !.normal_batch_size = normal_batch_size]

\* A DB1 poll at the real batch size, InfluxDB up or down.
db1_poll_real == \E ok \in BOOLEAN : db1_iteration(RealCfg, ok)

\* A DB32 poll at the real batch size, InfluxDB up or down.
db32_poll_real ==
    \E cover_flow \in Flows, shell_flow \in Flows, x \in Weights,
       w \in WriteOutcomes :
        db32_iteration(RealCfg, cover_flow, shell_flow,
                       [success |-> TRUE, weight |-> x], FALSE, TRUE, w,
                       ValvesAtRest)

\* A recovered, running session: the two loops poll and the clock advances.
NextCadence ==
    \/ db1_poll_real
    \/ db32_poll_real
    \/ Tick

SpecCadence == InitRecovered /\ [][NextCadence]_vars
\* ------------------------------------------------ the polling scheduler
\* The loops with the back-off as the code has it, errors followed up to
\* MaxErrorCount.
TaskCfg == [ScaledCfg EXCEPT !.BACKOFF_EXPONENT_CEIL = MAX_BACKOFF_EXPONENT,
                             !.ERROR_COUNT_CEIL = MaxErrorCount]

\* The data path, which the scheduler's own steps leave alone.
dataVars == <<sessVars, file, now, result, nops, accVars, valveVars, bufVars,
              written, db, plcVars, estVars, acc_lock, unitVars>>

\* An iteration that raises as it would be without the except Exception
\* branch: the exception ends the coroutine.
loop_failed_mut(cfg, t) ==
    /\ task_ready(t)
    /\ task' = [iteration_failed(cfg, t) EXCEPT ![t].pc = "done"]
    /\ UNCHANGED <<dataVars, running, db1_interval, stop_pc>>

\* An iteration of loop t that raises (the PLC manager, the parser or a
\* flush): the except Exception branch of the loop.
loop_failed(cfg, t) ==
    /\ task_ready(t)
    /\ task' = iteration_failed(cfg, t)
    /\ UNCHANGED <<dataVars, running, db1_interval, stop_pc>>

\* An iteration of the DB1 or DB32 loop whose read returns nothing.
loop_nodata(t) ==
    /\ t \in {"db1", "db32"}
    /\ task_ready(t)
    /\ task' = iteration_nodata(t)
    /\ UNCHANGED <<dataVars, running, db1_interval, stop_pc>>

\* An iteration of _status_polling_loop that reaches the end of its try
\* block (a read that returns nothing is skipped, not counted).
status_iteration ==
    /\ task_ready("status")
    /\ task' = iteration_succeeded("status", STATUS_INTERVAL)
    /\ UNCHANGED <<dataVars, running, db1_interval, stop_pc>>

\* switch_db1_speed(high_speed)
switch_db1_speed(high_speed) ==
    /\ db1_interval' = IF high_speed THEN DB1_INTERVAL_FAST
                       ELSE DB1_INTERVAL_SLOW
    /\ UNCHANGED <<dataVars, running, task, stop_pc>>

\* POST /api/control/start: switch_db1_speed(high_speed=True), then
\* polling_service.start_smelting(batch_code), which hands the batch code to
\* the session (BatchService.start with its accumulators' reset and save).
control_start_polling(b) ==
    /\ nops < MaxOps
    /\ nops' = nops + 1
    /\ db1_interval' = DB1_INTERVAL_FAST
    /\ IF state = "running" \/ state = "paused"
       THEN /\ result' = [op |-> "start", success |-> FALSE]
            /\ UNCHANGED <<sessVars, file, accVars>>
       ELSE /\ batch_code' = b
            /\ state' = "running"
            /\ start_time' = now
            /\ pause_time' = NoTime
            /\ total_pause_duration' = 0
            /\ UNCHANGED last_batch_code
            /\ cooling' = cooling_reset_for_new_batch(b)
            /\ feeding' = feeding_reset_for_new_batch(b)
            /\ file' = save_state_to_file("running", b, last_batch_code,
                                          now, NoTime, 0)
            /\ result' = [op |-> "start", success |-> TRUE]
    /\ written' = {}
    /\ UNCHANGED <<now, valveVars, bufVars, db, plcVars, running, task,
                   stop_pc, estVars, acc_lock, unitVars>>

\* POST /api/control/stop: switch_db1_speed(high_speed=False), then
\* polling_service.stop_smelting(), which ends the session
\* (BatchService.stop).
control_stop_polling ==
    /\ nops < MaxOps
    /\ nops' = nops + 1
    /\ db1_interval' = DB1_INTERVAL_SLOW
    /\ IF state = "idle"
       THEN /\ result' = [op |-> "stop", success |-> FALSE]
            /\ UNCHANGED <<sessVars, file>>
       ELSE /\ last_batch_code' = batch_code
            /\ state' = "idle"
            /\ batch_code' = Null
            /\ start_time' = NoTime
            /\ pause_time' = NoTime
            /\ total_pause_duration' = 0
            /\ file' = save_state_to_file("idle", Null, batch_code, NoTime,
                                          NoTime, 0)
            /\ result' = [op |-> "stop", success |-> TRUE]
    /\ written' = {}
    /\ UNCHANGED <<now, accVars, valveVars, bufVars, db, plcVars, running,
                   task, stop_pc, estVars, acc_lock, unitVars>>

\* The entry points that start, pause, resume and stop a session (the
\* /api/batch calls and the /api/control calls), crashes, and the clock.
NextInterval ==
    \/ session_call(BatchIds, {TRUE})
    \/ \E b \in BatchIds : control_start_polling(b)
    \/ control_stop_polling
    \/ restart
    \/ Tick

SpecInterval == Init /\ [][NextInterval]_vars
\* task.cancel() on a coroutine that has not ended.
cancel(tasks, t) ==
    IF tasks[t].pc = "done" THEN tasks
    ELSE [tasks EXCEPT ![t].cancelled = TRUE]

\* stop_all_polling_loops returned.
StopReturned == Len(StopOrder) + 1

\* stop_all_polling_loops up to its first await: the three flags go false,
\* the first task is cancelled and awaited.
stop_all_polling_loops ==
    /\ stop_pc = 0
    /\ running' = [t \in Tasks |-> FALSE]
    /\ task' = cancel(task, StopOrder[1])
    /\ stop_pc' = 1
    /\ UNCHANGED <<dataVars, db1_interval>>

\* stop_all_polling_loops as it would be if it did not await the tasks.
stop_resume_mut ==
    /\ stop_pc \in 1..Len(StopOrder)
    /\ IF stop_pc < Len(StopOrder)
       THEN task' = cancel(task, StopOrder[stop_pc + 1])
       ELSE task' = task
    /\ stop_pc' = stop_pc + 1
    /\ UNCHANGED <<dataVars, running, db1_interval>>

\* The awaited task has ended: stop_all_polling_loops resumes, cancels and
\* awaits the next task, or returns after the last.
stop_resume ==
    /\ stop_pc \in 1..Len(StopOrder)
    /\ task[StopOrder[stop_pc]].pc = "done"
    /\ IF stop_pc < Len(StopOrder)
       THEN task' = cancel(task, StopOrder[stop_pc + 1])
       ELSE task' = task
    /\ stop_pc' = stop_pc + 1
    /\ UNCHANGED <<dataVars, running, db1_interval>>

\* A loop at its sleep finds itself cancelled (CancelledError) or wakes to a
\* false flag (the while condition): the coroutine ends.
task_exit(t) ==
    /\ task[t].pc = "sleeping"
    /\ task[t].cancelled \/ ~running[t]
    /\ task' = [task EXCEPT ![t].pc = "done"]
    /\ UNCHANGED <<dataVars, running, db1_interval, stop_pc>>

\* The three loops with the back-off of the code, no stop.
db1_poll_task == db1_iteration(TaskCfg, TRUE)

db32_poll_task ==
    \E cover_flow \in Flows, shell_flow \in Flows, x \in Weights :
        db32_iteration(TaskCfg, cover_flow, shell_flow,
                       [success |-> TRUE, weight |-> x], FALSE, TRUE,
                       [cover |-> TRUE, shell |-> TRUE, feeding |-> TRUE,
                        flush |-> TRUE], ValvesAtRest)

NextBackoff ==
    \/ db1_poll_task
    \/ db32_poll_task
    \/ status_iteration
    \/ \E t \in Tasks : loop_failed(TaskCfg, t)
    \/ \E t \in {"db1", "db32"} : loop_nodata(t)

SpecBackoff == Init /\ [][NextBackoff]_vars

\* The loops with a back-off of two steps, the speed switch and the stop.
LoopCfg == [ScaledCfg EXCEPT !.BACKOFF_EXPONENT_CEIL = BackoffExp + 1,
                             !.ERROR_COUNT_CEIL = BackoffExp + 2]

db1_poll_loop == db1_iteration(LoopCfg, TRUE)

db32_poll_loop ==
    \E cover_flow \in Flows, shell_flow \in Flows, x \in Weights :
        db32_iteration(LoopCfg, cover_flow, shell_flow,
                       [success |-> TRUE, weight |-> x], FALSE, TRUE,
                       [cover |-> TRUE, shell |-> TRUE, feeding |-> TRUE,
                        flush |-> TRUE], ValvesAtRest)

NextTasks ==
    \/ db1_poll_loop
    \/ db32_poll_loop
    \/ status_iteration
    \/ \E t \in Tasks : loop_failed(LoopCfg, t)
    \/ \E t \in {"db1", "db32"} : loop_nodata(t)
    \/ \E high_speed \in BOOLEAN : switch_db1_speed(high_speed)
    \/ stop_all_polling_loops
    \/ stop_resume
    \/ \E t \in Tasks : task_exit(t)

SpecTasks == Init /\ [][NextTasks]_vars

\* The event loop runs what is ready: a cancelled or stopped coroutine ends,
\* and stop_all_polling_loops resumes when the task it awaits has ended.
SpecTasksFair ==
    /\ SpecTasks
    /\ \A t \in Tasks : WF_vars(task_exit(t))
    /\ WF_vars(stop_resume)
\* ------------------------------------------------------------ PLCManager
\* Everything outside the PLCManager.
coreVars == <<sessVars, file, now, result, nops, accVars, valveVars, bufVars,
              written, db, loopVars, estVars, acc_lock, unitVars>>

\* PLCManager.is_connected
is_connected(p) == p.connected /\ p.client

\* PLCManager._connect_internal when it has to connect: a client is built,
\* and the connect succeeds (ok) or raises.
connect_internal(p, ok) ==
    IF ok
    THEN [connected |-> TRUE, client |-> TRUE, consecutive_error_count |-> 0]
    ELSE [p EXCEPT !.connected = FALSE, !.client = TRUE]

\* PLCManager._disconnect_internal
disconnect_internal(p) == [p EXCEPT !.connected = FALSE, !.client = FALSE]

\* The except branch of read_db, write_db and read_output_area: the error
\* is counted, and read_db alone drops the connection at the ceiling.
io_failed(p, op) ==
    LET q == [p EXCEPT !.consecutive_error_count = @ + 1]
    IN  IF op = "read_db"
           /\ q.consecutive_error_count >= MAX_CONSECUTIVE_ERRORS
        THEN disconnect_internal(q)
        ELSE q

\* The call of thread t returns and leaves the with-block.
plc_return(t, ok, attempts) ==
    /\ caller' = [caller EXCEPT ![t] = CallerIdle]
    /\ rw_lock' = NoThread
    /\ plc_ret' = [thread |-> t, op |-> caller[t].op, ok |-> ok,
                   attempts |-> attempts,
                   was_connected |-> caller[t].was_connected]

\* Thread t calls a PLCManager method and reaches its "with self._rw_lock".
plc_call(t, op) ==
    /\ caller[t].pc = "idle"
    /\ caller' = [caller EXCEPT ![t] = [pc |-> "waiting", op |-> op,
                                        attempts |-> 0,
                                        was_connected |-> FALSE]]
    /\ UNCHANGED <<coreVars, plc, rw_lock, plc_ret>>

\* Entering the with-block as it would be if the lock did not exclude.
plc_acquire_mut(t) ==
    /\ caller[t].pc = "waiting"
    /\ rw_lock' = t
    /\ caller' = [caller EXCEPT ![t].pc = "locked",
                                ![t].was_connected = is_connected(plc)]
    /\ UNCHANGED <<coreVars, plc, plc_ret>>

\* Thread t acquires _rw_lock and enters the with-block.
plc_acquire(t) ==
    /\ caller[t].pc = "waiting"
    /\ rw_lock = NoThread
    /\ rw_lock' = t
    /\ caller' = [caller EXCEPT ![t].pc = "locked",
                                ![t].was_connected = is_connected(plc)]
    /\ UNCHANGED <<coreVars, plc, plc_ret>>

\* The first part of the with-block as it would be if a failed reconnect
\* were tried again.
plc_enter_mut(t) ==
    /\ caller[t].pc = "locked"
    /\ LET op == caller[t].op
       IN  IF op = "connect"
           THEN IF is_connected(plc)
                THEN plc' = plc /\ plc_return(t, TRUE, 0)
                ELSE \E ok \in BOOLEAN :
                        /\ plc' = connect_internal(plc, ok)
                        /\ plc_return(t, ok, 1)
           ELSE IF op = "disconnect"
           THEN plc' = disconnect_internal(plc) /\ plc_return(t, TRUE, 0)
           ELSE IF op = "update_config"
           THEN plc' = [plc EXCEPT !.connected = FALSE]
                /\ plc_return(t, TRUE, 0)
           ELSE IF is_connected(plc)
           THEN /\ caller' = [caller EXCEPT ![t].pc = "io"]
                /\ UNCHANGED <<plc, rw_lock, plc_ret>>
           ELSE \E ok \in BOOLEAN :
                   /\ plc' = connect_internal(plc, ok)
                   /\ IF ok
                      THEN /\ caller' = [caller EXCEPT
                                          ![t].pc = "io",
                                          ![t].attempts = Min(@ + 1, 2)]
                           /\ UNCHANGED <<rw_lock, plc_ret>>
                      ELSE /\ caller' = [caller EXCEPT
                                          ![t].attempts = Min(@ + 1, 2)]
                           /\ UNCHANGED <<rw_lock, plc_ret>>
    /\ UNCHANGED coreVars

\* The first part of the with-block: connect, disconnect and update_config
\* run to their end; read_db, write_db and read_output_area reconnect once
\* if the manager is not connected, and return if that fails.
plc_enter(t) ==
    /\ caller[t].pc = "locked"
    /\ LET op == caller[t].op
       IN  IF op = "connect"
           THEN IF is_connected(plc)
                THEN plc' = plc /\ plc_return(t, TRUE, 0)
                ELSE \E ok \in BOOLEAN :
                        /\ plc' = connect_internal(plc, ok)
                        /\ plc_return(t, ok, 1)
           ELSE IF op = "disconnect"
           THEN plc' = disconnect_internal(plc) /\ plc_return(t, TRUE, 0)
           ELSE IF op = "update_config"
           THEN plc' = [plc EXCEPT !.connected = FALSE]
                /\ plc_return(t, TRUE, 0)
           ELSE IF is_connected(plc)
           THEN /\ caller' = [caller EXCEPT ![t].pc = "io"]
                /\ UNCHANGED <<plc, rw_lock, plc_ret>>
           ELSE \E ok \in BOOLEAN :
                   /\ plc' = connect_internal(plc, ok)
                   /\ IF ok
                      THEN /\ caller' = [caller EXCEPT ![t].pc = "io",
                                                       ![t].attempts = 1]
                           /\ UNCHANGED <<rw_lock, plc_ret>>
                      ELSE plc_return(t, FALSE, 1)
    /\ UNCHANGED coreVars

\* The transfer of read_db, write_db or read_output_area: it succeeds and
\* clears the error counter, or raises and is counted.
plc_io(t) ==
    /\ caller[t].pc = "io"
    /\ \E ok \in BOOLEAN :
          IF ok
          THEN /\ plc' = [plc EXCEPT !.consecutive_error_count = 0]
               /\ plc_return(t, TRUE, caller[t].attempts)
          ELSE /\ plc.consecutive_error_count < MaxErrors
               /\ plc' = io_failed(plc, caller[t].op)
               /\ plc_return(t, FALSE, caller[t].attempts)
    /\ UNCHANGED coreVars

\* The threads calling the PLCManager.
NextPlc ==
    \/ \E t \in Threads, op \in PlcOps : plc_call(t, op)
    \/ \E t \in Threads : plc_acquire(t)
    \/ \E t \in Threads : plc_enter(t)
    \/ \E t \in Threads : plc_io(t)

SpecPlc == Init /\ [][NextPlc]_vars

\* A thread inside the with-block keeps running: the snap7 calls return or
\* raise, they do not block for ever.
SpecPlcFair ==
    /\ SpecPlc
    /\ \A t \in Threads : WF_vars(plc_enter(t)) /\ WF_vars(plc_io(t))
\* ------------------------------------------------- the openness estimator
\* The estimator with a status queue that holds its whole window.
ValveCfg == [ScaledCfg EXCEPT !.STATUS_QUEUE_SIZE = StatusQueueLen]

\* Status bytes in which valve 1 takes each of its four codes (valves 2 to
\* 4 at rest), and the travel times a request sets (0 is raised to 1).
ValveBytes == 0..3
ConfigTimes == {0, 5 * DefaultFullTime}

\* ValveConfigService.update_config(valve_id, full_open_time,
\* full_close_time), an argument of None (NoTime) leaving the time as it is.
update_config(valve_id, full_open_time, full_close_time) ==
    /\ nops < MaxOps
    /\ nops' = nops + 1
    /\ valve_config' =
           [valve_config EXCEPT
               ![valve_id].full_open_time =
                   IF full_open_time = NoTime THEN @ ELSE Max(1, full_open_time),
               ![valve_id].full_close_time =
                   IF full_close_time = NoTime THEN @ ELSE Max(1, full_close_time)]
    /\ result' = [op |-> "update_config", success |-> TRUE]
    /\ written' = {}
    /\ UNCHANGED <<sessVars, file, now, accVars, valveVars, bufVars, db,
                   plcVars, loopVars, acc_lock, unitVars, valve_openness,
                   valve_status_queues, valve_last_record_time,
                   latest_valve_status>>

\* PUT /api/valve/config/1 with a closing time.
valve_config_call ==
    \E full_close_time \in ConfigTimes : update_config(1, NoTime, full_close_time)

\* The wall clock (datetime.now) moves on by a tick, up to the horizon of
\* the estimator.  A tick is the calibration threshold or longer and the
\* DB32 loop never sleeps that long, so it has polled within the tick.
Advance ==
    /\ now < ValveHorizon
    /\ \A v \in Valves : valve_last_record_time[v] = now
    /\ now' = now + 1
    /\ written' = {}
    /\ UNCHANGED <<sessVars, file, result, nops, accVars, valveVars, bufVars,
                   db, plcVars, loopVars, estVars, acc_lock, unitVars>>

\* The wall clock is set back (a clock correction of the host).
ClockStepBack ==
    /\ nops < MaxOps
    /\ nops' = nops + 1
    /\ now > 0
    /\ now' = now - 1
    /\ written' = {}
    /\ UNCHANGED <<sessVars, file, result, accVars, valveVars, bufVars,
                   db, plcVars, loopVars, estVars, acc_lock, unitVars>>

\* A DB32 poll with a status byte of ValveBytes, the clock having moved
\* since the poll before (the loop sleeps between two polls).
db32_poll_valves ==
    /\ \A v \in Valves : valve_last_record_time[v] # now
    /\ \E status_byte \in ValveBytes, cover_flow \in Flows,
          shell_flow \in Flows, x \in Weights :
           db32_iteration(ValveCfg, cover_flow, shell_flow,
                          [success |-> TRUE, weight |-> x], FALSE, TRUE,
                          [cover |-> TRUE, shell |-> TRUE, feeding |-> TRUE,
                           flush |-> TRUE], status_byte)

\* POST /api/valve/openness/reset while no batch runs.
valve_reset_idle == reset_openness(AllValves, Null)

\* The estimator under polls, travel-time changes and resets, the clock
\* moving forward.
NextValve ==
    \/ db32_poll_valves
    \/ Advance
    \/ valve_config_call
    \/ valve_reset_idle

SpecValve == Init /\ [][NextValve]_vars

\* A DB32 poll with a status byte of ValveBytes at any moment, the status
\* queue holding the last record only.
db32_poll_clock ==
    \E status_byte \in ValveBytes, cover_flow \in Flows,
       shell_flow \in Flows, x \in Weights :
        db32_iteration(ScaledCfg, cover_flow, shell_flow,
                       [success |-> TRUE, weight |-> x], FALSE, TRUE,
                       [cover |-> TRUE, shell |-> TRUE, feeding |-> TRUE,
                        flush |-> TRUE], status_byte)

\* The estimator under a clock that also steps back.
NextClock ==
    \/ db32_poll_clock
    \/ Tick
    \/ ClockStepBack
    \/ valve_reset_idle

SpecClock == Init /\ [][NextClock]_vars

\* The first DB32 poll after start-up, with any status byte.
StatusBytes == 0..255

db32_poll_first ==
    /\ latest_valve_status = NoValveStatus
    /\ power = PowerFresh
    /\ weight_result = NoWeightResult
    /\ parsed = NoParsed
    /\ task["db32"].outcome = "none"
    /\ \E status_byte \in StatusBytes, cover_flow \in Flows,
          shell_flow \in Flows, x \in Weights :
           db32_iteration(ValveCfg, cover_flow, shell_flow,
                          [success |-> TRUE, weight |-> x], FALSE, TRUE,
                          [cover |-> TRUE, shell |-> TRUE, feeding |-> TRUE,
                           flush |-> TRUE], status_byte)

SpecDecode == Init /\ [][db32_poll_first]_vars
\* ------------------------------------------------- the feeding window
FeedCfg == [ScaledCfg EXCEPT !.CALC_INTERVAL = FeedWindow,
                             !.FEED_QUEUE_SIZE = FeedWindow]

\* Hopper weights (kg): full, and after a discharge too small to count in
\* a run of four samples (98) or large enough (97).
FeedFull == 100
FeedLow == {97, 98}

\* The process comes up fresh while InfluxDB holds no total for batch "A"
\* or the total of an earlier sitting of that batch.
InitFeed ==
    /\ state = "idle"
    /\ batch_code = Null
    /\ last_batch_code = Null
    /\ start_time = NoTime
    /\ pause_time = NoTime
    /\ total_pause_duration = 0
    /\ file = NoFile
    /\ now = 0
    /\ result = [op |-> "init", success |-> TRUE]
    /\ nops = 0
    /\ cooling = CoolingInit
    /\ feeding = FeedingInit
    /\ valve_batch = [v \in Valves |-> Null]
    /\ valve_current_batch = Null
    /\ valve_openness_buffers = [v \in Valves |-> <<>>]
    /\ arc_buffer = <<>>
    /\ arc_buffer_count = 0
    /\ normal_buffer = <<>>
    /\ normal_buffer_count = 0
    /\ written = {}
    /\ \E total \in {0, PriorTotal} :
          db = [feeding_total |-> [t \in Tags |-> IF t = "A" THEN total ELSE 0],
                furnace_cover_water_total |-> [t \in Tags |-> 0],
                furnace_shell_water_total |-> [t \in Tags |-> 0]]
    /\ plc = PlcFresh
    /\ rw_lock = NoThread
    /\ caller = [t \in Threads |-> CallerIdle]
    /\ plc_ret = NoReturn
    /\ running = [t \in Tasks |-> TRUE]
    /\ db1_interval = DB1_INTERVAL_SLOW
    /\ task = [t \in Tasks |-> TaskFresh]
    /\ stop_pc = 0
    /\ acc_lock = [a \in Accumulators |-> NoThread]
    /\ valve_openness = [v \in Valves |-> OpennessFresh]
    /\ valve_status_queues = [v \in Valves |-> <<>>]
    /\ valve_last_record_time = [v \in Valves |-> NoTime]
    /\ valve_config = [v \in Valves |-> ConfigDefault]
    /\ latest_valve_status = NoValveStatus
    /\ power = PowerFresh
    /\ weight_result = NoWeightResult
    /\ parsed = NoParsed

\* POST /api/batch/start for batch "A" on the idle service.
feed_start == state = "idle" /\ start("A", TRUE)

\* The weights below full that the window already holds.
LowsSeen == {feeding.data_queue[i].weight :
                 i \in 1..Len(feeding.data_queue)} \ {FeedFull}

\* A DB32 poll of the running session up to its first feeding trigger: the
\* hopper is full (discharging or not) or, while discharging, at the one
\* lower weight of the window.
db32_poll_feed ==
    /\ is_running
    /\ feeding.poll_count = Len(feeding.data_queue)
    /\ \E s \in ({FeedFull} \X BOOLEAN)
                 \cup ({y \in FeedLow : LowsSeen \subseteq {y}} \X {TRUE}) :
          db32_iteration(FeedCfg, 0, 0, [success |-> TRUE, weight |-> s[1]],
                         s[2], TRUE,
                         [cover |-> TRUE, shell |-> TRUE, feeding |-> TRUE,
                          flush |-> TRUE], ValvesAtRest)

NextFeed ==
    \/ feed_start
    \/ db32_poll_feed

SpecFeed == InitFeed /\ [][NextFeed]_vars
\* ------------------------------------------------- PowerEnergyCalculator
\* Everything outside the energy calculator, the scale reader and the
\* decoder, but for the points written.
restVars == <<sessVars, file, now, result, nops, accVars, valveVars, bufVars,
              db, plcVars, loopVars, estVars, acc_lock>>

Phases == {"U", "V", "W"}

\* Arc currents (A), at an arc voltage of 100 V on each phase.
ArcCurrents == {100, 200}

PowerCfg == [QUEUE_SIZE |-> PowerQueueSize,
             MIN_POINTS |-> PowerMinPoints,
             CALC_INTERVAL_SEC |-> PowerCalcInterval]

\* PowerEnergyCalculator.reset_for_new_batch
power_reset_for_new_batch(pw, b) ==
    [pw EXCEPT !.power_queue = <<>>, !.last_calc_time = NoTime,
               !.current_batch_code = b]

\* PowerEnergyCalculator._get_latest_from_database, as calculate_energy_
\* increment uses it: 0.0 without a batch.
power_get_latest(pw) ==
    IF Truthy(pw.current_batch_code) THEN pw.sink_total ELSE 0

\* The three-phase power of calculate_power (kW).
power_total(arc_current, arc_voltage) ==
    (arc_current["U"] * arc_voltage["U"]) \div 1000
    + (arc_current["V"] * arc_voltage["V"]) \div 1000
    + (arc_current["W"] * arc_voltage["W"]) \div 1000

\* PowerEnergyCalculator.calculate_power at time t: the calculator after
\* the call and should_calc_energy.
calculate_power(cfg, pw, arc_current, arc_voltage, t) ==
    LET q == DequeAppend(pw.power_queue,
                         [power_total |-> power_total(arc_current, arc_voltage),
                          timestamp |-> t],
                         cfg.QUEUE_SIZE)
        first == pw.last_calc_time = NoTime
        should_calc == IF first THEN Len(q) >= cfg.MIN_POINTS
                       ELSE t - pw.last_calc_time >= cfg.CALC_INTERVAL_SEC
    IN  [power |-> [pw EXCEPT !.power_queue = q,
                              !.last_calc_time =
                                  IF first /\ should_calc THEN t ELSE @],
         should_calc_energy |-> should_calc]

\* One term of the integration as it would be if the power of the earlier
\* sample were taken for the whole interval.
energy_term_mut(p1, p2) ==
    2 * p1.power_total * (p2.timestamp - p1.timestamp)

\* One term of the integration loop: (P1 + P2) / 2 * dt, in half kW-ticks.
energy_term(p1, p2) ==
    (p1.power_total + p2.power_total) * (p2.timestamp - p1.timestamp)

\* The loop of calculate_energy_increment over data_list[i..].
RECURSIVE energy_delta(_, _)
energy_delta(data_list, i) ==
    IF i >= Len(data_list) THEN 0
    ELSE energy_term(data_list[i], data_list[i + 1])
         + energy_delta(data_list, i + 1)

\* PowerEnergyCalculator.calculate_energy_increment at time t.
calculate_energy_increment(pw, t) ==
    LET latest == power_get_latest(pw)
        n == Len(pw.power_queue)
        delta == IF n < 2 THEN 0 ELSE energy_delta(pw.power_queue, 1)
    IN  [pw EXCEPT !.last_calc_time = t,
                   !.returned = [energy_total_delta |-> delta,
                                 energy_total |-> latest + delta,
                                 data_points |-> n]]

\* A batch begins for the calculator.
power_new_batch ==
    /\ ~Truthy(power.current_batch_code)
    /\ power' = power_reset_for_new_batch(power, "A")
    /\ written' = {}
    /\ UNCHANGED <<restVars, weight_result, parsed>>

\* One arc sample handed to the calculator; when should_calc_energy comes
\* back, calculate_energy_increment runs and the energy_total it returns is
\* what is written for the batch.
power_sample ==
    /\ Truthy(power.current_batch_code)
    /\ IF power.power_queue = <<>> THEN TRUE
       ELSE power.power_queue[Len(power.power_queue)].timestamp < now
    /\ \E c \in ArcCurrents :
          LET r == calculate_power(PowerCfg, power,
                                   [ph \in Phases |-> c],
                                   [ph \in Phases |-> 100], now)
              e == calculate_energy_increment(r.power, now)
          IN  power' = IF r.should_calc_energy
                       THEN [e EXCEPT !.sink_total = e.returned.energy_total]
                       ELSE r.power
    /\ written' = {}
    /\ UNCHANGED <<restVars, weight_result, parsed>>

\* Time passes between two arc samples.
PowerAdvance ==
    /\ now < PowerHorizon
    /\ now' = now + 1
    /\ written' = {}
    /\ UNCHANGED <<sessVars, file, result, nops, accVars, valveVars, bufVars,
                   db, plcVars, loopVars, estVars, acc_lock, unitVars>>

NextPower ==
    \/ power_new_batch
    \/ power_sample
    \/ PowerAdvance

SpecPower == Init /\ [][NextPower]_vars
\* ------------------------------------------------ ConfigDrivenDB32Parser
\* Bytes of a DB block: no bit, bit 0, bit 3.
DataBytes == {0, 1, 8}

\* The blocks the PLC read may hand over, whole or cut short.
RECURSIVE Blocks(_)
Blocks(n) ==
    IF n = 0 THEN {<<>>}
    ELSE LET shorter == Blocks(n - 1)
         IN  shorter \cup {Append(d, b) : d \in {e \in shorter : Len(e) = n - 1},
                                          b \in DataBytes}

\* A module definition: offsets in tenths (63 = byte 6, bit 3), as the
\* configuration writes them.
ModuleFields ==
    <<[name |-> "distance", offset |-> 0, type |-> "UDINT", scale |-> 1],
      [name |-> "pressure", offset |-> 40, type |-> "WORD", scale |-> 1],
      [name |-> "status_byte", offset |-> 60, type |-> "BYTE", scale |-> 1],
      [name |-> "alarm", offset |-> 63, type |-> "BOOL", scale |-> 1]>>
FieldNames == {ModuleFields[i].name : i \in 1..Len(ModuleFields)}
FieldOf(name) == CHOOSE f \in Range(ModuleFields) : f.name = name

\* Offsets of the module in the block.
BaseOffsets == {0, 1}

\* _parse_offset: (byte_offset, bit_offset)
parse_offset(offset) == <<offset \div 10, offset % 10>>

\* struct.unpack of n big-endian bytes of data from index i (0-based).
RECURSIVE unpack(_, _, _)
unpack(data, i, n) ==
    IF n = 0 THEN 0 ELSE 256 * unpack(data, i, n - 1) + data[i + n]

\* ConfigDrivenDB32Parser._parse_field
parse_field(data, base_offset, field) ==
    LET off == parse_offset(field.offset)
        abs_offset == base_offset + off[1]
    IN  CASE field.type = "BOOL" ->
                 IF abs_offset >= Len(data) THEN FALSE
                 ELSE Bit(data[abs_offset + 1], off[2]) = 1
          [] field.type = "BYTE" ->
                 IF abs_offset >= Len(data) THEN 0 ELSE data[abs_offset + 1]
          [] field.type = "WORD" ->
                 IF abs_offset + 2 > Len(data) THEN 0
                 ELSE unpack(data, abs_offset, 2) * field.scale
          [] field.type \in {"DWORD", "UDINT"} ->
                 IF abs_offset + 4 > Len(data) THEN 0
                 ELSE unpack(data, abs_offset, 4) * field.scale
          [] OTHER -> 0

\* ConfigDrivenDB32Parser.parse_module: the entry of each field, and the
\* grouped entry parse_all builds for the distance.
parse_module(data, base_offset) ==
    [data |-> data,
     offset |-> base_offset,
     fields |-> [n \in FieldNames |->
                    [value |-> parse_field(data, base_offset, FieldOf(n)),
                     type |-> FieldOf(n).type]],
     electrode_depth |->
         LET distance_raw == parse_field(data, base_offset, FieldOf("distance"))
         IN  [raw |-> distance_raw,
              valid |-> 0 <= distance_raw /\ distance_raw <= 10000]]

\* A DB32 block, whole or short, is decoded.  The parser keeps nothing from
\* one call to the next (parse_module reads only the configuration), so the
\* first call stands for every call.
decode ==
    /\ DOMAIN parsed.fields = {}
    /\ \E data \in Blocks(DataLen), base_offset \in BaseOffsets :
          parsed' = parse_module(data, base_offset)
    /\ written' = {}
    /\ UNCHANGED <<restVars, power, weight_result>>

SpecDecodeFields == Init /\ [][decode]_vars
\* ------------------------------------------ operation_modbus_weight_reader
\* a ^ b on non-negative integers.
RECURSIVE Xor(_, _)
Xor(a, b) ==
    IF a = 0 THEN b
    ELSE IF b = 0 THEN a
    ELSE (((a % 2) + (b % 2)) % 2) + 2 * Xor(a \div 2, b \div 2)

\* The inner loop of calc_crc16: n shifts of crc.
RECURSIVE crc_shift(_, _)
crc_shift(crc, n) ==
    IF n = 0 THEN crc
    ELSE IF crc % 2 = 1
    THEN crc_shift(Xor(crc \div 2, CRC_POLY), n - 1)
    ELSE crc_shift(crc \div 2, n - 1)

\* calc_crc16 with the bytes of data[1..n] taken in.
RECURSIVE crc_upto(_, _)
crc_upto(data, n) ==
    IF n = 0 THEN CRC_INIT
    ELSE crc_shift(Xor(crc_upto(data, n - 1), data[n]), 8)

\* calc_crc16
calc_crc16(data) == crc_upto(data, Len(data))

\* parse_weight_response as it would be if the payload were trusted without
\* the CRC.
parse_weight_response_mut(response) ==
    IF Len(response) < 9 THEN [success |-> FALSE, weight |-> NoWeight]
    ELSE IF Bit(response[2], 7) = 1
    THEN [success |-> FALSE, weight |-> NoWeight]
    ELSE IF response[2] # 3 THEN [success |-> FALSE, weight |-> NoWeight]
    ELSE IF response[3] # 4 THEN [success |-> FALSE, weight |-> NoWeight]
    ELSE [success |-> TRUE,
          weight |-> (256 * response[4] + response[5]) * 65536
                     + (256 * response[6] + response[7])]

\* parse_weight_response: (success, weight)
parse_weight_response(response) ==
    IF Len(response) < 9 THEN [success |-> FALSE, weight |-> NoWeight]
    ELSE IF Bit(response[2], 7) = 1
    THEN [success |-> FALSE, weight |-> NoWeight]
    ELSE IF response[2] # 3 THEN [success |-> FALSE, weight |-> NoWeight]
    ELSE IF response[3] # 4 THEN [success |-> FALSE, weight |-> NoWeight]
    ELSE LET data_without_crc == SubSeq(response, 1, Len(response) - 2)
             received_crc == response[Len(response) - 1]
                             + 256 * response[Len(response)]
         IN  IF received_crc # calc_crc16(data_without_crc)
             THEN [success |-> FALSE, weight |-> NoWeight]
             ELSE [success |-> TRUE,
                   weight |-> (256 * response[4] + response[5]) * 65536
                              + (256 * response[6] + response[7])]

\* What the scale may answer before its CRC: the address, a function code
\* (read, another function, an exception), a byte count and four data
\* bytes; 01 03 04 00 00 01 22 is the answer of the manual, 290 kg.
FrameBodies ==
    {<<1, f, c, 0, d2, d3, d4>> :
        f \in {3, 4, 131}, c \in {4, 2}, d2 \in {0, 1}, d3 \in {0, 1},
        d4 \in {0, 34}}

\* crc as the two bytes on the wire, low byte first.
CrcBytes(crc) == <<crc % 256, crc \div 256>>

\* The frames on the wire: the body with its own CRC, with a CRC whose low
\* byte was damaged, or with the CRC of a body whose last data byte
\* differs.
Frames ==
    {b \o CrcBytes(calc_crc16(b)) : b \in FrameBodies}
    \cup {b \o CrcBytes(Xor(calc_crc16(b), 1)) : b \in FrameBodies}
    \cup {b \o CrcBytes(calc_crc16([b EXCEPT ![7] = 34 - @])) :
              b \in FrameBodies}

\* read_hopper_weight: ser.read(9) returns the frame or, at the timeout,
\* the bytes that arrived; nothing at all is an error without parsing.  The
\* port is opened and closed by every call and nothing is kept between
\* calls, so the first call stands for every call.
read_hopper_weight ==
    /\ weight_result = NoWeightResult
    /\ \E frame \in Frames, n \in 0..9 :
          LET response == SubSeq(frame, 1, n)
              r == IF response = <<>>
                   THEN [success |-> FALSE, weight |-> NoWeight]
                   ELSE parse_weight_response(response)
          IN  weight_result' = [success |-> r.success, weight |-> r.weight,
                                raw_response |-> response]
    /\ written' = {}
    /\ UNCHANGED <<restVars, power, parsed>>

SpecScale == Init /\ [][read_hopper_weight]_vars
\* ---------------------------------------------- the accumulators' locks
\* Everything but the locks and the threads' positions.
lockFree == <<sessVars, file, now, result, nops, accVars, valveVars, bufVars,
              written, db, loopVars, estVars, plc, plc_ret,
             unitVars>>

\* Thread t calls a method of accumulator a and reaches its
\* "with self._data_lock"; no accumulator is called from inside a
\* PLCManager method.
acc_call(t, a) ==
    /\ caller[t].pc = "idle"
    /\ caller' = [caller EXCEPT ![t] = [pc |-> "acc_waiting", op |-> a,
                                        attempts |-> 0,
                                        was_connected |-> FALSE]]
    /\ UNCHANGED <<lockFree, rw_lock, acc_lock>>

\* Entering the accumulator as it would be if a PLCManager method called
\* it from inside its with-block.
acc_acquire_mut(t) ==
    /\ \/ caller[t].pc = "acc_waiting"
       \/ caller[t].pc = "io"
    /\ \E a \in Accumulators :
          /\ caller[t].pc = "acc_waiting" => a = caller[t].op
          /\ acc_lock[a] = NoThread
          /\ acc_lock' = [acc_lock EXCEPT ![a] = t]
          /\ caller' = [caller EXCEPT ![t].pc = "acc", ![t].op = a]
    /\ UNCHANGED <<lockFree, rw_lock>>

\* Thread t acquires the accumulator's lock and enters the with-block.
acc_acquire(t) ==
    /\ caller[t].pc = "acc_waiting"
    /\ acc_lock[caller[t].op] = NoThread
    /\ acc_lock' = [acc_lock EXCEPT ![caller[t].op] = t]
    /\ caller' = [caller EXCEPT ![t].pc = "acc"]
    /\ UNCHANGED <<lockFree, rw_lock>>

\* Inside the valve calculator's lock, add_status reads the travel times:
\* ValveConfigService.get_config takes and releases _config_lock.
acc_get_config(t) ==
    /\ caller[t].pc = "acc" /\ caller[t].op = "valve"
    /\ acc_lock["valve_config"] = NoThread
    /\ acc_lock' = [acc_lock EXCEPT !["valve_config"] = t]
    /\ caller' = [caller EXCEPT ![t].pc = "acc_config"]
    /\ UNCHANGED <<lockFree, rw_lock>>

acc_got_config(t) ==
    /\ caller[t].pc = "acc_config"
    /\ acc_lock' = [acc_lock EXCEPT !["valve_config"] = NoThread]
    /\ caller' = [caller EXCEPT ![t].pc = "acc"]
    /\ UNCHANGED <<lockFree, rw_lock>>

\* The accumulator's method (its arithmetic, its InfluxDB query and write)
\* ends and the with-block is left.
acc_release(t) ==
    /\ caller[t].pc = "acc"
    /\ acc_lock' = [acc_lock EXCEPT ![caller[t].op] = NoThread]
    /\ caller' = [caller EXCEPT ![t] = CallerIdle]
    /\ UNCHANGED <<lockFree, rw_lock>>

\* The polling loops' thread and a request thread, each calling the
\* PLCManager and the accumulators.
NextLocks ==
    \/ NextPlc
    \/ \E t \in Threads, a \in Accumulators : acc_call(t, a)
    \/ \E t \in Threads : acc_acquire(t)
    \/ \E t \in Threads : acc_get_config(t)
    \/ \E t \in Threads : acc_got_config(t)
    \/ \E t \in Threads : acc_release(t)

SpecLocks == Init /\ [][NextLocks]_vars
\* ------------------------------------------------------------ properties
\* The step is a call of op (a session call or a restart).
Call(op) == nops' = nops + 1 /\ result'.op = op

\* The step is a successful start, pause, resume or stop.
SuccessfulCall ==
    /\ nops' = nops + 1
    /\ result'.op \in {"start", "pause", "resume", "stop"}
    /\ result'.success

\* batch_state.json holds the in-memory session.
FileMatchesMemory ==
    /\ file.exists
    /\ file.state = state
    /\ file.batch_code = batch_code
    /\ file.start_time = start_time
    /\ file.pause_time = pause_time
    /\ file.total_pause_duration = total_pause_duration

\* C5: start() while the session is Running or Paused returns failure and
\* leaves the state, the session id, start_time, the pause bookkeeping, the
\* accumulator windows and the persisted state unchanged.
C5_StartRejected ==
    [][(Call("start") /\ state \in {"running", "paused"})
       => /\ result'.success = FALSE
          /\ UNCHANGED <<state, batch_code, last_batch_code, start_time,
                         pause_time, total_pause_duration, cooling, feeding,
                         file>>]_vars

\* A start was just rejected in a paused session whose accumulator windows
\* hold samples and whose start lies in the past.
C5_Witness ==
    /\ result = [op |-> "start", success |-> FALSE]
    /\ state = "paused"
    /\ pause_time # NoTime
    /\ now > start_time
    /\ cooling.furnace_cover_flow_queue # <<>>
    /\ feeding.data_queue # <<>>

C9_SessionIdMandatory ==
    /\ (result.op = "start" /\ result.success) => Truthy(batch_code)
    /\ is_smelting <=> batch_code # Null

\* C10: pause() outside Running, resume() outside Paused and stop() outside
\* Running/Paused each return failure and change neither the in-memory
\* session nor the persisted state.
C10_Rejected ==
    [][(\/ Call("pause") /\ state # "running"
        \/ Call("resume") /\ state # "paused"
        \/ Call("stop") /\ state \notin {"running", "paused"})
       => /\ result'.success = FALSE
          /\ UNCHANGED <<sessVars, file>>]_vars

\* A resume was just rejected in a running session that is on file.
C10_Witness ==
    /\ result = [op |-> "resume", success |-> FALSE]
    /\ state = "running"
    /\ file.exists
    /\ file.state = "running"

\* The points waiting in the arc and sensor buffers.
ProcessorBuffered == Range(arc_buffer) \cup Range(normal_buffer)

\* The kinds of point the processor buffers.
ProcessorKinds == {"arc_data", "electrode_depth", "cooling_pressure",
                   "cooling_flow", "cooling_water_total", "hopper_weight"}

\* The points waiting in the valve-openness buffers.
ValveBuffered == UNION {Range(valve_openness_buffers[v]) : v \in Valves}

\* C1: every point in any write buffer (arc, sensor, valve openness)
\* carries a non-null batch_code tag, and no point is put into any write
\* buffer while the session is Idle.
C1_TaggedAndNeverIdle ==
    \A p \in ProcessorBuffered \cup ValveBuffered :
        p.tag # Null /\ p.cap # "idle"

C3_NoWriteWhilePaused == \A p \in written : p.at # "paused"

\* C4: while the session is Idle neither a buffer flush nor an accumulator
\* trigger writes anything to the sink.
C4_NoWriteWhileIdle == \A p \in written : p.at # "idle"

SameSessionStep ==
    /\ now' = now
    /\ start_time # NoTime
    /\ start_time' = start_time
    /\ batch_code' = batch_code

C14_StartResetsAll ==
    [][(Call("start") /\ result'.success)
       => /\ cooling' = cooling_reset_for_new_batch(batch_code')
          /\ feeding' = feeding_reset_for_new_batch(batch_code')
          /\ valve_current_batch' = batch_code'
          /\ \A v \in Valves : valve_batch'[v] = batch_code']_vars

InLink == {t \in Threads : caller[t].pc \in {"locked", "io"}}

\* C16: at most one operation on the controller link (connect, disconnect,
\* block read, block write, output-region read, configuration update) is in
\* progress at any instant; a caller that arrives meanwhile waits its turn.
C16_OneAtATime ==
    /\ Cardinality(InLink) <= 1
    /\ \A t \in InLink : rw_lock = t

\* One thread is in the middle of a transfer while the other waits at the
\* lock.
C16_Witness ==
    /\ caller["loop"].pc = "io"
    /\ caller["worker"].pc = "waiting"
    /\ caller["worker"].op = "update_config"

\* C17: the consecutive-error counter goes up on every failed block read,
\* block write and output-region read, and the manager is never left
\* connected with 10 or more consecutive errors.
C17_ForceDrop ==
    is_connected(plc) => plc.consecutive_error_count < MAX_CONSECUTIVE_ERRORS

\* C18: a read_db, write_db or read_output_area that finds the manager
\* disconnected makes exactly one reconnect attempt inside the call and
\* none when it is connected; every call that entered the with-block
\* returns.
C18_OneReconnect ==
    /\ [](plc_ret.op \in PlcIoOps
          => plc_ret.attempts = IF plc_ret.was_connected THEN 0 ELSE 1)
    /\ \A t \in Threads :
          (caller[t].pc \in {"locked", "io"}) ~> (caller[t].pc = "idle")

\* A read_db found the manager disconnected, tried once to reconnect,
\* failed and returned.
C18_Witness ==
    /\ plc_ret.op = "read_db"
    /\ ~plc_ret.was_connected
    /\ plc_ret.attempts = 1
    /\ ~plc_ret.ok
    /\ ~is_connected(plc)
    /\ caller[plc_ret.thread].pc = "idle"

\* A written point as it sat in its buffer.
Unwritten(p) == [kind |-> p.kind, dev |-> p.dev, tag |-> p.tag, cap |-> p.cap]

\* C19: whenever a flush returns, after a successful write, a failed one or
\* no write at all, its buffer is empty; the points of a failed flush are
\* dropped, so a flush writes only points buffered since the flush before.
C19_FlushEmpties ==
    /\ [](\A ok \in BOOLEAN, v \in Valves :
             flush_valve_openness_buffers(valve_openness_buffers,
                                          ok).buffers[v] = <<>>)
    /\ [][/\ (arc_buffer_count # 0 /\ arc_buffer_count' = 0)
             => arc_buffer' = <<>>
          /\ (normal_buffer_count # 0 /\ normal_buffer_count' = 0)
             => normal_buffer' = <<>>
          /\ \A p \in written' :
                p.kind \in ProcessorKinds
                => \/ Unwritten(p) \in ProcessorBuffered
                   \/ p.cap = state /\ p.tag = batch_code]_vars

\* A sensor flush has just failed while the accumulator's own write went
\* through: the session is Running, the poll buffered its points, nothing
\* of the buffer reached the sink and the buffer is empty.
C19_Witness ==
    /\ state = "running"
    /\ Truthy(batch_code)
    /\ \E p \in written : p.kind = "furnace_cover_water_total"
    /\ \A p \in written : p.kind \notin ProcessorKinds
    /\ normal_buffer = <<>>
    /\ normal_buffer_count = 0

\* Points one DB32 poll of a running session puts into the sensor buffer:
\* those of convert_to_points, the water total and the hopper weight.
PointsPerPoll == Len(convert_to_points(batch_code)) + 2

C21_Backoff ==
    [][\A t \in Tasks :
          task'[t].error_count = task[t].error_count + 1
              => task'[t].wait =
                     Min(MAX_ERROR_WAIT, 10 * 2 ^ (task'[t].error_count - 1))]_vars


\* The interval a loop sleeps after an iteration that succeeded.
OwnIntervals(t) ==
    IF t = "db1" THEN {DB1_INTERVAL_SLOW, DB1_INTERVAL_FAST}
    ELSE IF t = "db32" THEN {DB32_INTERVAL}
    ELSE {STATUS_INTERVAL}

\* What a loop's iterations write of its own record.
Bookkeeping(t) == <<task[t].error_count, task[t].wait, task[t].outcome>>

\* C22: fault isolation.  A step in which a polling task fails changes no
\* other task's error counter, back-off delay, outcome or cancellation, no
\* running flag and no interval; and whatever the other tasks' error
\* counts, a running task stays ready for its next iteration and sleeps its
\* own interval after an iteration that succeeded.
C22_Isolation ==
    /\ [][\A t \in Tasks :
             (Bookkeeping(t)' # Bookkeeping(t) /\ task'[t].outcome = "failed")
                 => /\ \A u \in Tasks \ {t} : task'[u] = task[u]
                    /\ running' = running
                    /\ db1_interval' = db1_interval]_vars
    /\ [](\A u \in Tasks :
             /\ running[u] => task_ready(u)
             /\ task[u].outcome = "ok"
                    => task[u].error_count = 0 /\ task[u].wait \in OwnIntervals(u))

\* The DB32 loop has failed up to the ceiling of its back-off while the DB1
\* and status loops each ended an iteration without error at their own
\* intervals.
C22_Witness ==
    /\ task["db32"].error_count = LoopCfg.ERROR_COUNT_CEIL
    /\ task["db32"].outcome = "failed"
    /\ task["db1"].outcome = "ok" /\ task["db1"].error_count = 0
    /\ task["db1"].wait = DB1_INTERVAL_FAST
    /\ task["status"].outcome = "ok" /\ task["status"].wait = STATUS_INTERVAL
    /\ \A t \in Tasks : running[t]

\* C23: no error raised inside an iteration ends the polling task.  A task
\* whose running flag is true is at its sleep, neither ended nor cancelled,
\* also right after an iteration that failed, and a task ends only once its
\* flag is false or it has been cancelled.
C23_NeverTerminates ==
    /\ [](\A t \in Tasks : running[t] => task[t].pc = "sleeping")
    /\ [][\A t \in Tasks :
             /\ (Bookkeeping(t)' # Bookkeeping(t) /\ running[t])
                    => task_ready(t)'
             /\ (task[t].pc # "done" /\ task'[t].pc = "done")
                    => (~running[t] \/ task[t].cancelled)]_vars

\* Every loop has failed and is asleep in its back-off, still running.
C23_Witness ==
    \A t \in Tasks :
        /\ task[t].outcome = "failed" /\ task[t].error_count > 0
        /\ running[t] /\ task[t].pc = "sleeping"

\* C24: only the arc task's interval changes at runtime, between 5.0 s and
\* 0.2 s; an iteration of the arc loop that succeeds sleeps the value the
\* interval has at that moment, the switch itself touches no task, and the
\* other loops sleep their fixed intervals.
C24_IntervalSwitch ==
    /\ [](db1_interval \in {DB1_INTERVAL_SLOW, DB1_INTERVAL_FAST})
    /\ [][/\ (Bookkeeping("db1")' # Bookkeeping("db1")
                 /\ task'["db1"].outcome = "ok")
                => task'["db1"].wait = db1_interval
          /\ db1_interval' # db1_interval => task' = task /\ running' = running
          /\ (Bookkeeping("status")' # Bookkeeping("status")
                 /\ task'["status"].outcome = "ok")
                => task'["status"].wait = STATUS_INTERVAL]_vars

\* The arc loop, created with the slow interval, sleeps the fast one after
\* a switch to high speed, and the status loop its own.
C24_Witness ==
    /\ db1_interval = DB1_INTERVAL_FAST
    /\ task["db1"].outcome = "ok" /\ task["db1"].wait = DB1_INTERVAL_FAST
    /\ task["db1"].pc = "sleeping" /\ running["db1"]
    /\ task["status"].outcome = "ok" /\ task["status"].wait = STATUS_INTERVAL

Held(t) ==
    {a \in Accumulators : acc_lock[a] = t}
        \cup (IF rw_lock = t THEN {"rw_lock"} ELSE {})

WaitsFor(t) ==
    IF caller[t].pc = "waiting" THEN rw_lock
    ELSE IF caller[t].pc = "acc_waiting" THEN acc_lock[caller[t].op]
    ELSE IF caller[t].pc = "acc" /\ caller[t].op = "valve"
    THEN acc_lock["valve_config"]
    ELSE NoThread

\* C26: no thread holds the device mutex and an accumulator lock at the
\* same time, and no two threads wait for a lock the other holds.
C26_LockOrder ==
    /\ \A t \in Threads :
          ~(rw_lock = t /\ \E a \in Accumulators : acc_lock[a] = t)
    /\ \A t \in Threads, u \in Threads :
          ~(t # u /\ WaitsFor(t) = u /\ WaitsFor(u) = t)

\* One thread is inside a PLC transfer under the device mutex while the
\* other is inside the valve calculator holding its lock and the
\* configuration's.
C26_Witness ==
    /\ rw_lock = "loop" /\ caller["loop"].pc = "io"
    /\ acc_lock["valve"] = "worker" /\ acc_lock["valve_config"] = "worker"
    /\ Held("loop") = {"rw_lock"}

\* C27: the decoder and the openness estimator classify a valve by the same
\* code, concat(bit_open, bit_close), with "01" = OPEN: after a poll the
\* estimator's status of each valve is the decoder's code, and from 0% a
\* sample the decoder calls OPEN raises the estimate (byte 0b00000001,
\* valve 1).
C27_SameClassification ==
    \A v \in Valves :
        latest_valve_status.state[v] # Null
            => /\ valve_openness[v].current_status
                      = latest_valve_status.status_code[v]
               /\ latest_valve_status.state[v] = "OPEN"
                      => valve_openness[v].openness_percent > 0

\* C28: after any samples, resets and calibrations every valve's openness
\* is within [0, 100], and a STOPPED or ERROR sample leaves it unchanged.
C28_InRange ==
    /\ [](\A v \in Valves : valve_openness[v].openness_percent \in 0..100)
    /\ [][\A v \in Valves :
             (valve_status_queues'[v] # valve_status_queues[v]
                 /\ valve_last_record_time'[v] # NoTime
                 /\ valve_openness'[v].current_status \in {"00", "11"})
                => valve_openness'[v].openness_percent
                       = valve_openness[v].openness_percent]_vars

\* The records of valve v not older than the calibration threshold all
\* carry the given status and cover nine tenths of the threshold.
CoveredRun(v, status) ==
    LET recent == SelectSeq(valve_status_queues[v], LAMBDA r :
                      r.timestamp >= now - CalThreshold)
    IN  /\ recent # <<>>
        /\ SumIntervals(recent) >= 9 * CalThreshold
        /\ \A i \in 1..Len(recent) : recent[i].status = status

\* C29: every time a sample completes a run of CLOSED ("10" to the
\* estimator) that covers the threshold, the openness is 0% and the
\* calibration is recorded as a full close at that time; likewise 100% and
\* a full open for a run of OPEN.
C29_SnapEveryTime ==
    \A v \in Valves :
        valve_last_record_time[v] = now
            => /\ CoveredRun(v, "10")
                      => valve_openness[v].openness_percent = 0
               /\ CoveredRun(v, "01")
                      => valve_openness[v].openness_percent = 100


\* ---------------------------------------------------------------- C30
\* The maximal contiguous runs of discharging samples of a window, as
\* pairs of first and last index.
MaximalRuns(L) ==
    {r \in (1..Len(L)) \X (1..Len(L)) :
        /\ r[1] <= r[2]
        /\ \A k \in r[1]..r[2] : L[k].is_discharging
        /\ (r[1] > 1 => ~L[r[1] - 1].is_discharging)
        /\ (r[2] < Len(L) => ~L[r[2] + 1].is_discharging)}

\* avg(first 3) - avg(last 3) of run r (fewer when the run is shorter), in
\* sixths of a kilogram.
Delta6(L, r) ==
    LET n == Min(3, r[2] - r[1] + 1)
        first == {r[1] + j : j \in 0..(n - 1)}
        last == {r[2] - j : j \in 0..(n - 1)}
        Sum[S \in SUBSET (1..Len(L))] ==
            IF S = {} THEN 0
            ELSE LET k == CHOOSE k \in S : TRUE
                 IN  L[k].weight + Sum[S \ {k}]
    IN  ((Sum[first] - Sum[last]) * 6) \div n

\* The runs that count: at least 2 samples and a delta of at least 1.0 kg.
CountedRuns(L) ==
    {r \in MaximalRuns(L) : r[2] - r[1] + 1 >= 2 /\ Delta6(L, r) >= 6}

RECURSIVE SumDelta6(_, _)
SumDelta6(L, R) ==
    IF R = {} THEN 0
    ELSE LET r == CHOOSE r \in R : TRUE
         IN  Delta6(L, r) + SumDelta6(L, R \ {r})

\* The window increment of the statement, in sixths of a kilogram.
WindowIncrement6(L) == SumDelta6(L, CountedRuns(L))

\* Ten discharging samples going from 100 kg to 60 kg, and five going from
\* 100 kg to 99 kg (delta 2/3 kg, below the floor).
ExampleRun ==
    [i \in 1..10 |->
        [weight |-> IF i <= 3 THEN 100 ELSE IF i >= 8 THEN 60 ELSE 80,
         is_discharging |-> TRUE]]
SmallRun ==
    [i \in 1..5 |->
        [weight |-> IF i <= 3 THEN 100 ELSE 99, is_discharging |-> TRUE]]

\* The poll that makes the feeding trigger fire.
FeedTrigger ==
    /\ feeding.poll_count = FeedWindow - 1
    /\ feeding'.data_queue # feeding.data_queue

\* C30: on each feed-mass trigger the total of the batch in InfluxDB grows
\* by the sum, over the maximal runs of discharging samples of at least 2
\* samples, of avg(first 3) - avg(last 3), counting only the runs with a
\* delta of at least 1.0 kg, and no other step changes the total; the run
\* from 100 kg to 60 kg yields 40 kg and a run below the floor yields 0.
C30_WindowIncrement ==
    /\ [][/\ FeedTrigger =>
                db'.feeding_total["A"] =
                    db.feeding_total["A"]
                    + WindowIncrement6(feeding'.data_queue)
          /\ ~FeedTrigger => db'.feeding_total = db.feeding_total]_vars
    /\ [](/\ SumSeq(feeding_events(ExampleRun, 1)) = 6 * 40
          /\ WindowIncrement6(ExampleRun) = 6 * 40
          /\ SumSeq(feeding_events(SmallRun, 1)) = 0
          /\ WindowIncrement6(SmallRun) = 0)

\* A trigger has fired on a window with two counted runs of 1.0 kg each and
\* the total grew by 2.0 kg from what InfluxDB held.
C30_Witness ==
    /\ feeding.poll_count = 0
    /\ Len(feeding.data_queue) = FeedWindow
    /\ Cardinality(CountedRuns(feeding.data_queue)) = 2
    /\ db.feeding_total["A"] = PriorTotal + 12


\* ---------------------------------------------------------------- C31
\* Sum over the consecutive pairs of samples of L of dt * (P1 + P2) / 2, in
\* half kW-ticks.
Trapezoid2(L) ==
    LET Sum[S \in SUBSET (1..(Len(L) - 1))] ==
            IF S = {} THEN 0
            ELSE LET i == CHOOSE i \in S : TRUE
                 IN  (L[i + 1].timestamp - L[i].timestamp)
                         * (L[i].power_total + L[i + 1].power_total)
                     + Sum[S \ {i}]
    IN  Sum[1..(Len(L) - 1)]

\* 10 kW at t = 0 and 20 kW one hour later (the tick read as an hour).
TwoSamples == <<[power_total |-> 10, timestamp |-> 0],
                [power_total |-> 20, timestamp |-> 1]>>

\* The arc sample that makes calculate_energy_increment run.
EnergyTrigger ==
    /\ power'.power_queue # power.power_queue
    /\ power'.last_calc_time = now

\* C31: the energy increment of a trigger is the trapezoidal sum over the
\* consecutive buffered samples, whatever their spacing; 10 kW and 20 kW one
\* hour apart integrate to 15 kWh, not to 10 or 20.
C31_Trapezoid ==
    /\ [][EnergyTrigger =>
             power'.returned.energy_total_delta
                 = Trapezoid2(power'.power_queue)]_vars
    /\ [](/\ energy_delta(TwoSamples, 1) = 2 * 15
          /\ energy_delta(TwoSamples, 1) # 2 * 10
          /\ energy_delta(TwoSamples, 1) # 2 * 20)

\* A trigger has just integrated three or more samples of unequal spacing
\* and unequal power.
C31_Witness ==
    /\ power.last_calc_time = now
    /\ Len(power.power_queue) >= 3
    /\ power.returned.data_points = Len(power.power_queue)
    /\ power.power_queue[2].timestamp - power.power_queue[1].timestamp
           # power.power_queue[3].timestamp - power.power_queue[2].timestamp
    /\ power.power_queue[1].power_total # power.power_queue[2].power_total
    /\ power.returned.energy_total_delta > 0


\* ---------------------------------------------------------------- C39
\* The samples of L from the time of the last calculation on: the last
\* sample that calculation saw and the samples taken since.
NotYetIntegrated(L, since) == SelectSeq(L, LAMBDA s : s.timestamp >= since)

\* C39: each trigger integrates the intervals between the samples taken
\* since the trigger before it, and no interval a trigger before it has
\* already integrated.
C39_EachIntervalOnce ==
    [][EnergyTrigger =>
          power'.returned.energy_total_delta
              = Trapezoid2(NotYetIntegrated(power'.power_queue,
                                            power.last_calc_time))]_vars


\* ---------------------------------------------------------------- C32
\* Bytes a field of the type takes, and the type's zero value.
FieldWidth(type) ==
    CASE type \in {"BOOL", "BYTE"} -> 1
      [] type = "WORD" -> 2
      [] OTHER -> 4
ZeroOf(type) == IF type = "BOOL" THEN FALSE ELSE 0

\* The block decoded last is too short for the field.
ShortFor(n) ==
    parsed.offset + FieldOf(n).offset \div 10 + FieldWidth(FieldOf(n).type)
        > Len(parsed.data)

\* The fields a short block cuts off come out as the zero of their type,
\* and the fields it holds come out as they do from any longer block.
ShortFieldsZeroOthersKept ==
    DOMAIN parsed.fields # {} =>
        \A n \in FieldNames :
            IF ShortFor(n)
            THEN parsed.fields[n].value = ZeroOf(FieldOf(n).type)
            ELSE \A longer \in Blocks(DataLen) :
                    (/\ Len(longer) >= Len(parsed.data)
                     /\ \A i \in 1..Len(parsed.data) :
                            longer[i] = parsed.data[i])
                    => parse_field(longer, parsed.offset, FieldOf(n))
                           = parsed.fields[n].value

\* C32: a field the block is too short for decodes to the zero of its type
\* and is marked valid = false, and every other field of the call decodes to
\* the value it has anyway.
C32_ShortFieldMarked ==
    /\ ShortFieldsZeroOthersKept
    /\ DOMAIN parsed.fields # {} =>
          \A n \in FieldNames :
              ShortFor(n) => /\ "valid" \in DOMAIN parsed.fields[n]
                             /\ parsed.fields[n].valid = FALSE


\* ---------------------------------------------------------------- C33
\* The CRC of all bytes of r but the trailing two equals the trailing two.
CrcMatches(r) ==
    calc_crc16(SubSeq(r, 1, Len(r) - 2)) = r[Len(r) - 1] + 256 * r[Len(r)]

\* A response long enough, a read of 4 data bytes, with a matching CRC.
FrameTrusted(r) ==
    /\ Len(r) >= 9
    /\ r[2] = 3
    /\ r[3] = 4
    /\ CrcMatches(r)

\* C33: a response yields a weight only if it is long enough, has the
\* function code 3 and the byte count 4, and its CRC16 recomputed over all
\* bytes but the trailing two matches the trailing two; the answer of the
\* manual, 01 03 04 00 00 01 22 7B BA, carries the CRC 0xBA7B.
C33_CrcChecked ==
    /\ (weight_result.success \/ weight_result.weight # NoWeight)
           => FrameTrusted(weight_result.raw_response)
    /\ calc_crc16(<<1, 3, 4, 0, 0, 1, 34>>) = 47739

\* A whole read response of 4 data bytes came in with a CRC that does not
\* match, and no weight came out of it.
C33_Witness ==
    /\ Len(weight_result.raw_response) = 9
    /\ weight_result.raw_response[2] = 3
    /\ weight_result.raw_response[3] = 4
    /\ ~CrcMatches(weight_result.raw_response)
    /\ ~weight_result.success
    /\ weight_result.weight = NoWeight

\* The answer of the manual came in and 290 kg came out.
C33_Accepted ==
    /\ weight_result.raw_response = <<1, 3, 4, 0, 0, 1, 34, 123, 186>>
    /\ weight_result.success
    /\ weight_result.weight = 290


\* ---------------------------------------------------------------- C34
\* C34: an iteration of the DB1 or DB32 loop whose read returns nothing
\* counts as an error of that loop: its consecutive-error counter goes up
\* and its next read waits for the back-off of the new count.
C34_ReadFailureCounted ==
    [][\A t \in {"db1", "db32"} :
          (task'[t] # task[t] /\ task'[t].outcome = "nodata")
          => /\ \/ task'[t].error_count > task[t].error_count
                \/ task[t].error_count = MaxErrorCount
             /\ task'[t].wait = backoff(TaskCfg, task'[t].error_count)]_vars


\* ---------------------------------------------------------------- C35
\* The points a buffer flush wrote in this step: the kinds the processor
\* buffers (accumulator totals are written directly, not flushed).
Flushed == {p \in written : p.kind \in ProcessorKinds}

\* C35: no point captured while the session was Paused is written by a
\* flush that runs while the session is Running: a sample of a pause does
\* not survive in a write buffer until after the resume.
C35_NoPausedSampleWritten ==
    \A p \in Flushed : p.at = "running" => p.cap # "paused"

\* C36: every point a buffer flush writes carries the batch code that is
\* current at the write: once batch X was stopped and batch Y started, no
\* point tagged X is flushed.
C36_CurrentSessionTag ==
    \A p \in Flushed : Truthy(batch_code) => p.tag = batch_code


\* ---------------------------------------------------------------- C37
\* The kinds of running total the accumulators write.
TotalKinds == {"feeding_total", "furnace_cover_water_total",
               "furnace_shell_water_total"}

\* C37: in a session recovered from batch_state.json as Running with batch
\* S, every running total an accumulator writes is tagged S (it is attached
\* to S and continues S's series of totals).
C37_RecoveredAttached ==
    \A p \in written :
        (p.kind \in TotalKinds /\ p.at = "running") => p.tag = batch_code

\* ---------------------------------------------------------------- C38
\* C38: within one session the total an accumulator persists (feed mass,
\* cooling water of each circuit) never goes down from one write to the
\* next, also when the query for the latest total fails at a trigger.
C38_TotalsMonotone ==
    [][\A p \in written' :
          (p.kind \in TotalKinds /\ p.tag = batch_code /\ Truthy(p.tag))
          => /\ db'.feeding_total[p.tag] >= db.feeding_total[p.tag]
             /\ db'.furnace_cover_water_total[p.tag]
                  >= db.furnace_cover_water_total[p.tag]
             /\ db'.furnace_shell_water_total[p.tag]
                  >= db.furnace_shell_water_total[p.tag]]_vars

\* ---------------------------------------------------------------- C40
\* C40: the arc task's interval follows the session: whenever the session
\* is Running (started through any entry point, resumed, or recovered at
\* process start) the interval is the fast one, and whenever it is Idle
\* the interval is the slow one.
C40_IntervalFollowsSession ==
    /\ state = "running" => db1_interval = DB1_INTERVAL_FAST
    /\ state = "idle" => db1_interval = DB1_INTERVAL_SLOW
====
